---- MODULE Spec2Model ----
(***************************************************************************)
(* Cozinha de Pet: the relational store (shared/schema.ts), the storage    *)
(* interface (DatabaseStorage) and the express request handlers            *)
(* (registerRoutes).  Every handler is a sequence of awaited storage       *)
(* calls; one action of the model is one awaited call together with the    *)
(* synchronous code that follows it up to the next await or the response.  *)
(* A storage call is one SQL statement, which the store applies atomically *)
(* and under its declared constraints (primary keys, UNIQUE, foreign keys, *)
(* column types).                                                          *)
(***************************************************************************)
EXTENDS Integers, Sequences, FiniteSets, TLC

\* ------------------------------------------------------------------ bounds
NumProcs == 2          \* requests being handled at the same time
NumSessions == 1       \* browser sessions (cookies)
MaxId == 2             \* highest value a serial id column hands out
MaxClock == 2          \* highest reading of the store's clock
MaxComments == 3       \* highest id the comments sequence hands out

Procs == 1..NumProcs
Sessions == 1..NumSessions

VARIABLES
    users,      \* table users      (schema.ts 16-28)
    recipes,    \* table recipes    (schema.ts 71-88)
    favorites,  \* table favorites  (schema.ts 131-140)
    followers,  \* table followers  (schema.ts 154-163)
    pets,       \* table pets       (schema.ts 42-55)
    comments,   \* table comments   (schema.ts 100-112)
    serial,     \* next value of each table's serial id sequence
    session,    \* express-session store: session -> userId, 0 when unset
    proc,       \* the request each handler instance is processing
    resp,       \* the response the last step sent, with the request it answers
    now         \* the store's clock (defaultNow(), new Date())

vars == <<users, recipes, favorites, followers, pets, comments, serial, session,
          proc, resp, now>>

\* ------------------------------------------------------------ JS helpers
\* Number.NaN as parseInt yields it; it is never the value of a serial id.
NaN == 0 - 1

\* The numbers a request can spell: every id a sequence hands out and one
\* beyond them, and 0.
Numbers == 0..(MaxId + 1)
NumStrings == {ToString(n) : n \in Numbers}

\* The texts a path parameter can carry: the ids, and one that is no number.
ParamStrings == (NumStrings \ {"0"}) \cup {"abc"}

\* parseInt(s): the number a decimal string spells, NaN for any other text.
ParseInt(s) ==
    IF s \in NumStrings THEN CHOOSE n \in Numbers : ToString(n) = s ELSE NaN

\* An object with no own property ({} or an absent body).
NoBody == [k \in {} |-> ""]

\* { ...row, ...data }: the properties of data override those of row; .set()
\* and .values() write only properties that are columns of the table.
Assign(row, data) ==
    [k \in DOMAIN row |-> IF k \in DOMAIN data THEN data[k] ELSE row[k]]

\* ------------------------------------------------------------- bcrypt
\* bcrypt.hash(plain, 10): a one-way digest, never the text itself.  A
\* password column value is either such a digest or a raw text.
BcryptHash(plain) == [hashed |-> TRUE, of |-> plain]
RawText(text) == [hashed |-> FALSE, of |-> text]

\* (mutant) every plaintext matches
BcryptCompare_Always(plain, stored) == TRUE

\* bcrypt.compare(plain, stored): true only for a digest of that plaintext.
BcryptCompare(plain, stored) == stored.hashed /\ stored.of = plain

\* ------------------------------------------------------- requests
\* A request in progress: the route (op), the awaited call it is at (pc), its
\* session, req.user.id once authenticate has set req.user (the handlers
\* read nothing else of req.user; 0 before), the user row a login has read,
\* the path parameter and the body.
Idle == [op |-> "idle", pc |-> "idle", sess |-> 0, userId |-> 0, user |-> {},
         param |-> "", body |-> NoBody]

\* The request op arriving on session s with its path parameter and body.
Request(op, s, param, body) ==
    [op |-> op, pc |-> "handler", sess |-> s, userId |-> 0, user |-> {},
     param |-> param, body |-> body]

\* res.status(s).json({ message })
Message(s, m) == [status |-> s, message |-> m, users |-> {}, rows |-> <<>>]

\* res.status(s).json(user) / res.json(listOfUsers)
UserBody(s, us) == [status |-> s, message |-> "", users |-> us, rows |-> <<>>]

\* res.status(s).json(row) / res.json(listOfRows); json(undefined) has no row
RowBody(s, rs) == [status |-> s, message |-> "", users |-> {}, rows |-> rs]

NoResp == [req |-> Idle, res |-> Message(0, "")]

\* A handler instance may take a new request when it has none in progress.
Free(p) == proc[p].pc = "idle"

\* The handler of p sends response r to request req and ends.
Respond(p, req, r) ==
    /\ proc' = [proc EXCEPT ![p] = Idle]
    /\ resp' = [req |-> req, res |-> r]

\* The handler of p goes on to its next awaited call; no response is sent.
Goto(p, nextPc) ==
    /\ proc' = [proc EXCEPT ![p].pc = nextPc]
    /\ resp' = NoResp

At(p, op, pc) == proc[p].op = op /\ proc[p].pc = pc

\* req.user.id
UserId(p) == proc[p].userId

\* The last step answered a request op.
Answered(op) == resp.req.op = op

\* --------------------------------------------------------- the store
UserIds == {u.id : u \in users}
RecipeIds == {r.id : r \in recipes}

\* An integer column compared with, or set to, NaN: the store rejects the
\* statement (invalid input syntax for type integer).
BadInt(v) == v = NaN

\* ------------------------------------------------ storage: users (read)
\* (mutant) the record is returned as the store holds it
StripPassword_Keep(u) == u

\* const { password, ...userWithoutPassword } = user
StripPassword(u) == [k \in DOMAIN u \ {"password"} |-> u[k]]

getUser(id) == {StripPassword(u) : u \in {r \in users : r.id = id}}

getUserByUsername(username) == {u \in users : u.username = username}

getUserByEmail(email) == {u \in users : u.email = email}

\* --------------------------------------------- storage: users (write)
\* (mutant) the table declares no UNIQUE column
UsersAccepts_NoUnique(row) == TRUE

\* The constraints of table users on row (inserted, or updated in place of
\* the row with row.id): username and email are each UNIQUE.
UsersAccepts(row) ==
    \A u \in users :
        u.id # row.id => (u.username # row.username /\ u.email # row.email)

\* createUser: the password is stored as its bcrypt digest.
createUser(userData) ==
    [id |-> serial.users, username |-> userData.username,
     email |-> userData.email, password |-> BcryptHash(userData.password),
     createdAt |-> now, updatedAt |-> now]

\* A JS string is truthy unless it is empty.
Truthy(text) == text # ""

\* updateUser, the values it sets: "if (userData.password)" replaces the
\* password by its digest; any other password value is written as it came.
UpdateUserSet(userData) ==
    [k \in DOMAIN userData \cup {"updatedAt"} |->
        IF k = "updatedAt" THEN now
        ELSE IF k = "password"
             THEN IF Truthy(userData[k]) THEN BcryptHash(userData[k])
                                         ELSE RawText(userData[k])
             ELSE userData[k]]

\* updateUser: the row with this id after the update (none: no such row).
updateUser(id, userData) ==
    {Assign(u, UpdateUserSet(userData)) : u \in {r \in users : r.id = id}}

\* --------------------------------------------------- storage: recipes
PetTypes == {"dog", "cat"}
Categories == {"meat", "poultry", "fish", "treats"}

\* The columns of table recipes that a node-postgres parameter reaches as
\* text and the store casts to integer.
RecipeIntegerColumns == {"id", "userId", "prepTime", "cookCount"}

\* The columns a request can name in this model (the timestamps are set by
\* the storage layer itself).
RecipeColumns ==
    {"id", "userId", "title", "ingredients", "petType", "category",
     "prepTime", "cookCount"}

getRecipe(id) == {r \in recipes : r.id = id}

\* The constraints of table recipes on an inserted row: the foreign key and
\* the two enum columns.
RecipesAccepts(row) ==
    /\ row.userId \in UserIds
    /\ row.petType \in PetTypes
    /\ row.category \in Categories

\* createRecipe: id, cookCount and the timestamps take their defaults.
createRecipe(recipeData) ==
    [id |-> serial.recipes, userId |-> recipeData.userId,
     title |-> recipeData.title, ingredients |-> recipeData.ingredients,
     petType |-> recipeData.petType, category |-> recipeData.category,
     prepTime |-> recipeData.prepTime,
     cookCount |-> 0, createdAt |-> now, updatedAt |-> now]

\* The values of a .set() as the store takes them: it rejects a text that
\* is no number for an integer column and a text outside an enum.
RecipeSetAccepted(values) ==
    /\ \A k \in DOMAIN values \cap RecipeIntegerColumns :
         values[k] \in NumStrings
    /\ "petType" \in DOMAIN values => values.petType \in PetTypes
    /\ "category" \in DOMAIN values => values.category \in Categories
    /\ "userId" \in DOMAIN values => ParseInt(values.userId) \in UserIds

\* The accepted values, cast to the types of their columns.
RecipeSetCast(values) ==
    [k \in DOMAIN values \cap RecipeColumns |->
        IF k \in RecipeIntegerColumns THEN ParseInt(values[k]) ELSE values[k]]

\* UPDATE recipes SET values, updated_at = now WHERE id = id RETURNING *:
\* the row after the update (none: no such row).
UpdatedRecipe(id, values) ==
    {Assign(Assign(r, RecipeSetCast(values)), [updatedAt |-> now]) :
        r \in {x \in recipes : x.id = id}}

\* (mutant) the UPDATE without its WHERE clause
updateRecipe_EveryRow(id, recipeData) ==
    {Assign(Assign(r, RecipeSetCast(recipeData)), [updatedAt |-> now]) :
        r \in recipes}

updateRecipe(id, recipeData) == UpdatedRecipe(id, recipeData)

\* "recipes.cookCount + 1" is the JS sum of a column object and a number:
\* the object becomes its string and 1 is appended.  It is a constant text,
\* not an SQL expression over the row's cook_count.
ColumnPlusOne == "[object Object]1"

\* incrementCookCount, the values it sets.
IncrementCookCountSet == [cookCount |-> ColumnPlusOne]

incrementCookCount(id) == UpdatedRecipe(id, IncrementCookCountSet)

\* The table recipes with the rows of updated in place of their old selves.
ReplaceRecipes(updated) ==
    {r \in recipes : \A u \in updated : u.id # r.id} \cup updated

\* ------------------------------------------- storage: getRecipes
\* SQL "text LIKE pattern" over texts as sequences of characters: % matches
\* any run of characters and _ any one character.
RECURSIVE Like(_, _)
Like(text, pattern) ==
    IF pattern = <<>> THEN text = <<>>
    ELSE IF Head(pattern) = "%"
    THEN Like(text, Tail(pattern)) \/ (text # <<>> /\ Like(Tail(text), pattern))
    ELSE /\ text # <<>>
         /\ (Head(pattern) = "_" \/ Head(pattern) = Head(text))
         /\ Like(Tail(text), Tail(pattern))

\* `%${search}%`
SearchPattern(search) == <<"%">> \o search \o <<"%">>

\* options.limit || 10
DefaultLimit == 10
LimitOf(options) ==
    IF options.limit = NaN \/ options.limit = 0 THEN DefaultLimit
    ELSE options.limit

\* options.page ? (options.page - 1) * limit : 0
OffsetOf(options) ==
    IF options.page = NaN \/ options.page = 0 THEN 0
    ELSE (options.page - 1) * LimitOf(options)

\* The condition the query ends up with.  Each of the three "query =
\* query.where(...)" statements sets the WHERE clause of the builder anew,
\* so the clause of the last statement that ran is the one in the SQL:
\* search if supplied, else category if supplied, else petType if supplied.
WhereClause(options) ==
    IF options.search # <<>> THEN "search"
    ELSE IF Truthy(options.category) THEN "category"
    ELSE IF Truthy(options.petType) THEN "petType"
    ELSE "none"

\* The store rejects a comparison of an enum column with a text outside
\* the enum.
WhereAccepted(options) ==
    /\ WhereClause(options) = "petType" => options.petType \in PetTypes
    /\ WhereClause(options) = "category" => options.category \in Categories

WhereHolds(r, options) ==
    CASE WhereClause(options) = "search" ->
            \/ Like(r.title, SearchPattern(options.search))
            \/ Like(r.ingredients, SearchPattern(options.search))
      [] WhereClause(options) = "category" -> r.category = options.category
      [] WhereClause(options) = "petType" -> r.petType = options.petType
      [] OTHER -> TRUE

\* ORDER BY created_at DESC: every order of rows that is newest-first; the
\* store is free in the order of rows of equal created_at.
NewestFirst(rows) ==
    {q \in [1..Cardinality(rows) -> rows] :
        /\ \A i, j \in DOMAIN q : i < j =>
             (q[i] # q[j] /\ q[i].createdAt >= q[j].createdAt)}

\* LIMIT limit OFFSET offset of an ordered result.
LimitOffset(q, limit, offset) ==
    SubSeq(q, offset + 1, IF offset + limit < Len(q) THEN offset + limit ELSE Len(q))

\* getRecipes(options): the results the store may return.
getRecipes(options) ==
    {LimitOffset(q, LimitOf(options), OffsetOf(options)) :
        q \in NewestFirst({r \in recipes : WhereHolds(r, options)})}

\* ------------------------------------------------- storage: favorites
isFavorite(userId, recipeId) ==
    \E f \in favorites : f.userId = userId /\ f.recipeId = recipeId

\* The constraints of table favorites: the two foreign keys.  The table
\* declares no UNIQUE over (user_id, recipe_id).
FavoritesAccepts(data) ==
    /\ data.userId \in UserIds
    /\ data.recipeId \in RecipeIds

addFavorite(favoriteData) ==
    [id |-> serial.favorites, userId |-> favoriteData.userId,
     recipeId |-> favoriteData.recipeId, createdAt |-> now]

removeFavorite(userId, recipeId) ==
    {f \in favorites : ~(f.userId = userId /\ f.recipeId = recipeId)}

\* ------------------------------------------------- storage: followers
\* Users who follow userId, each without the password.
getFollowers(userId) ==
    {StripPassword(u) : u \in {r \in users :
        \E f \in followers : f.followerId = r.id /\ f.followingId = userId}}

\* Users whom userId follows, each without the password.
getFollowing(userId) ==
    {StripPassword(u) : u \in {r \in users :
        \E f \in followers : f.followingId = r.id /\ f.followerId = userId}}

isFollowing(followerId, followingId) ==
    \E f \in followers :
        f.followerId = followerId /\ f.followingId = followingId

\* The constraints of table followers: the two foreign keys.  The table
\* declares no UNIQUE over the pair and no CHECK that the two ids differ.
FollowersAccepts(data) ==
    /\ data.followerId \in UserIds
    /\ data.followingId \in UserIds

follow(followerData) ==
    [id |-> serial.followers, followerId |-> followerData.followerId,
     followingId |-> followerData.followingId, createdAt |-> now]

unfollow(followerId, followingId) ==
    {f \in followers :
        ~(f.followerId = followerId /\ f.followingId = followingId)}

\* ------------------------------------------------------ storage: pets
\* SQL NULL in comments.parent_id; no id is NULL.
Null == 0 - 2

getPet(id) == {x \in pets : x.id = id}

getPetsByUser(userId) == {x \in pets : x.userId = userId}

\* The constraints of table pets on an inserted row: the foreign key and the
\* enum column.
PetsAccepts(row) ==
    /\ row.userId \in UserIds
    /\ row.type \in PetTypes

\* createPet: id and the timestamps take their defaults.
createPet(petData) ==
    [id |-> serial.pets, userId |-> petData.userId, name |-> petData.name,
     type |-> petData.type, createdAt |-> now, updatedAt |-> now]

\* The columns of pets a request can name in this model, and those of them
\* the store casts to integer.
PetColumns == {"userId", "name", "type"}
PetIntegerColumns == {"userId"}

\* The values of a .set() on pets as the store takes them.
PetSetAccepted(values) ==
    /\ \A k \in DOMAIN values \cap PetIntegerColumns : values[k] \in NumStrings
    /\ "type" \in DOMAIN values => values.type \in PetTypes
    /\ "userId" \in DOMAIN values => ParseInt(values.userId) \in UserIds

PetSetCast(values) ==
    [k \in DOMAIN values \cap PetColumns |->
        IF k \in PetIntegerColumns THEN ParseInt(values[k]) ELSE values[k]]

\* updatePet: the row with this id after the update (none: no such row).
updatePet(id, petData) ==
    {Assign(Assign(x, PetSetCast(petData)), [updatedAt |-> now]) :
        x \in getPet(id)}

\* -------------------------------------------------- storage: comments
CommentIds == {c.id : c \in comments}

\* (mutant) the query without isNull(comments.parentId)
getComments_AnyParent(recipeId) ==
    NewestFirst({c \in comments : c.recipeId = recipeId})

\* getComments: the top-level comments of the recipe, newest first.
getComments(recipeId) ==
    NewestFirst({c \in comments : c.recipeId = recipeId /\ c.parentId = Null})

\* getReplies: the comments whose parent is commentId, newest first.
getReplies(commentId) ==
    NewestFirst({c \in comments : c.parentId = commentId})

\* The constraints of table comments: the three foreign keys; parent_id may
\* be NULL.  A foreign key is checked when the statement ends, with the new
\* row in the table: a row whose parent_id is its own id satisfies it.
CommentsAccepts(row) ==
    /\ row.userId \in UserIds
    /\ row.recipeId \in RecipeIds
    /\ row.parentId = Null \/ row.parentId \in CommentIds \cup {row.id}

createComment(commentData) ==
    [id |-> serial.comments, userId |-> commentData.userId,
     recipeId |-> commentData.recipeId, parentId |-> commentData.parentId,
     content |-> commentData.content, createdAt |-> now, updatedAt |-> now]

\* ------------------------------------------- ON DELETE CASCADE
\* The tables a DELETE reaches, as one value.
Store ==
    [users |-> users, recipes |-> recipes, favorites |-> favorites,
     followers |-> followers, pets |-> pets, comments |-> comments]

\* (mutant) only the direct replies go with a comment
WithReplies_Direct(cs, ids) ==
    ids \cup {c.id : c \in {x \in cs : x.parentId \in ids}}

\* comments.parent_id ON DELETE CASCADE: the ids in ids and the ids of all
\* comments of table cs below them.
RECURSIVE WithReplies(_, _)
WithReplies(cs, ids) ==
    LET next == ids \cup {c.id : c \in {x \in cs : x.parentId \in ids}} IN
      IF next = ids THEN ids ELSE WithReplies(cs, next)

\* DELETE FROM comments WHERE id IN ids
DeleteCommentsFrom(st, ids) ==
    [st EXCEPT !.comments = {c \in @ : c.id \notin WithReplies(@, ids)}]

\* DELETE FROM recipes WHERE id IN ids: comments.recipe_id and
\* favorites.recipe_id ON DELETE CASCADE.
DeleteRecipesFrom(st, ids) ==
    LET gone == {c.id : c \in {x \in st.comments : x.recipeId \in ids}} IN
      [DeleteCommentsFrom(st, gone) EXCEPT
         !.recipes = {r \in @ : r.id \notin ids},
         !.favorites = {f \in @ : f.recipeId \notin ids}]

\* (mutant) the references to users.id declare no ON DELETE CASCADE
DeleteUserFrom_NoCascade(st, id) ==
    [st EXCEPT !.users = {u \in @ : u.id # id}]

\* DELETE FROM users WHERE id = id: pets.user_id, recipes.user_id,
\* comments.user_id, favorites.user_id, followers.follower_id and
\* followers.following_id ON DELETE CASCADE.
DeleteUserFrom(st, id) ==
    LET owned == {r.id : r \in {x \in st.recipes : x.userId = id}}
        wrote == {c.id : c \in {x \in st.comments : x.userId = id}} IN
      [DeleteCommentsFrom(DeleteRecipesFrom(st, owned), wrote) EXCEPT
         !.users = {u \in @ : u.id # id},
         !.pets = {x \in @ : x.userId # id},
         !.favorites = {f \in @ : f.userId # id},
         !.followers = {f \in @ : f.followerId # id /\ f.followingId # id}]

\* DELETE FROM pets WHERE id IN ids: no table references pets.
DeletePetsFrom(st, ids) ==
    [st EXCEPT !.pets = {x \in @ : x.id \notin ids}]

\* (mutant) the methods return whether the statement matched a row
DeleteResult_IfFound(found) == found

\* "return true": what deletePet, deleteRecipe and deleteComment return
\* after their statement, whether or not it matched a row.
DeleteResult(found) == TRUE

\* deletePet, deleteRecipe and deleteComment: the store (the table pets)
\* after the statement.
deletePet(id) == DeletePetsFrom(Store, {id}).pets

deleteRecipe(id) == DeleteRecipesFrom(Store, {id})

deleteComment(id) == DeleteCommentsFrom(Store, {id})

\* The state takes the tables of st.
StoreBecomes(st) ==
    /\ users' = st.users
    /\ recipes' = st.recipes
    /\ favorites' = st.favorites
    /\ followers' = st.followers
    /\ pets' = st.pets
    /\ comments' = st.comments

\* ------------------------------------------------- middleware
\* authenticate, run when request req arrives at p: 401 without a session
\* user or when that user is gone, else req.user is the user getUser
\* returned and the route handler runs.
Authenticate(p, req) ==
    /\ Free(p)
    /\ LET userId == session[req.sess] IN
         IF userId = 0
         THEN Respond(p, req, Message(401, "Unauthorized"))
         ELSE IF getUser(userId) = {}
         THEN Respond(p, req, Message(401, "User not found"))
         ELSE /\ proc' = [proc EXCEPT ![p] = [req EXCEPT !.userId = userId]]
              /\ resp' = NoResp

\* ------------------------------------- POST /api/recipes/:recipeId/favorite
\* Requests that may insert are admitted while the id sequence has values
\* left for every insert in flight.
InFlight(op) == Cardinality({q \in Procs : proc[q].op = op /\ proc[q].pc # "idle"})

FavoritePost_Begin(p) ==
    /\ serial.favorites + InFlight("POST favorite") <= MaxId
    /\ \E s \in Sessions, rid \in ParamStrings :
         Authenticate(p, Request("POST favorite", s, rid, NoBody))
    /\ UNCHANGED <<users, recipes, favorites, followers, serial, session, now, pets, comments>>

FavoritePost_getRecipe(p) ==
    /\ At(p, "POST favorite", "handler")
    /\ LET recipeId == ParseInt(proc[p].param) IN
         IF BadInt(recipeId)
         THEN Respond(p, proc[p], Message(400, "Invalid data provided"))
         ELSE IF getRecipe(recipeId) = {}
         THEN Respond(p, proc[p], Message(404, "Recipe not found"))
         ELSE Goto(p, "isFavorite")
    /\ UNCHANGED <<users, recipes, favorites, followers, serial, session, now, pets, comments>>

FavoritePost_isFavorite(p) ==
    /\ At(p, "POST favorite", "isFavorite")
    /\ IF isFavorite(UserId(p), ParseInt(proc[p].param))
       THEN Respond(p, proc[p], Message(400, "Recipe already favorited"))
       ELSE Goto(p, "addFavorite")
    /\ UNCHANGED <<users, recipes, favorites, followers, serial, session, now, pets, comments>>

FavoritePost_addFavorite(p) ==
    /\ At(p, "POST favorite", "addFavorite")
    /\ LET favoriteData == [userId |-> UserId(p),
                            recipeId |-> ParseInt(proc[p].param)] IN
         /\ serial' = [serial EXCEPT !.favorites = @ + 1]
         /\ IF FavoritesAccepts(favoriteData)
            THEN /\ favorites' = favorites \cup {addFavorite(favoriteData)}
                 /\ Respond(p, proc[p], RowBody(201, <<addFavorite(favoriteData)>>))
            ELSE /\ favorites' = favorites
                 /\ Respond(p, proc[p], Message(400, "Invalid data provided"))
    /\ UNCHANGED <<users, recipes, followers, session, now, pets, comments>>

\* ----------------------------------- DELETE /api/recipes/:recipeId/favorite
FavoriteDelete_Begin(p) ==
    /\ \E s \in Sessions, rid \in ParamStrings :
         Authenticate(p, Request("DELETE favorite", s, rid, NoBody))
    /\ UNCHANGED <<users, recipes, favorites, followers, serial, session, now, pets, comments>>

FavoriteDelete_isFavorite(p) ==
    /\ At(p, "DELETE favorite", "handler")
    /\ LET recipeId == ParseInt(proc[p].param) IN
         IF BadInt(recipeId)
         THEN Respond(p, proc[p], Message(500, "Server error"))
         ELSE IF ~isFavorite(UserId(p), recipeId)
         THEN Respond(p, proc[p], Message(404, "Favorite not found"))
         ELSE Goto(p, "removeFavorite")
    /\ UNCHANGED <<users, recipes, favorites, followers, serial, session, now, pets, comments>>

FavoriteDelete_removeFavorite(p) ==
    /\ At(p, "DELETE favorite", "removeFavorite")
    /\ favorites' = removeFavorite(UserId(p), ParseInt(proc[p].param))
    /\ Respond(p, proc[p], Message(200, "Favorite removed successfully"))
    /\ UNCHANGED <<users, recipes, followers, serial, session, now, pets, comments>>

\* ------------------------------------------ POST /api/users/:userId/follow
FollowPost_Begin(p, params) ==
    /\ serial.followers + InFlight("POST follow") <= MaxId
    /\ \E s \in Sessions, uid \in params :
         Authenticate(p, Request("POST follow", s, uid, NoBody))
    /\ UNCHANGED <<users, recipes, favorites, followers, serial, session, now, pets, comments>>

\* (mutant) the handler lacks the check
IsSelfFollow_Never(followingId, userId) == followingId # followingId

\* "Can't follow yourself": followingId === req.user.id
IsSelfFollow(followingId, userId) == followingId = userId

FollowPost_getUser(p) ==
    /\ At(p, "POST follow", "handler")
    /\ LET followingId == ParseInt(proc[p].param) IN
         IF BadInt(followingId)
         THEN Respond(p, proc[p], Message(400, "Invalid data provided"))
         ELSE IF getUser(followingId) = {}
         THEN Respond(p, proc[p], Message(404, "User not found"))
         ELSE IF IsSelfFollow(followingId, UserId(p))
         THEN Respond(p, proc[p], Message(400, "Cannot follow yourself"))
         ELSE Goto(p, "isFollowing")
    /\ UNCHANGED <<users, recipes, favorites, followers, serial, session, now, pets, comments>>

FollowPost_isFollowing(p) ==
    /\ At(p, "POST follow", "isFollowing")
    /\ IF isFollowing(UserId(p), ParseInt(proc[p].param))
       THEN Respond(p, proc[p], Message(400, "Already following this user"))
       ELSE Goto(p, "follow")
    /\ UNCHANGED <<users, recipes, favorites, followers, serial, session, now, pets, comments>>

FollowPost_follow(p) ==
    /\ At(p, "POST follow", "follow")
    /\ LET followerData == [followerId |-> UserId(p),
                            followingId |-> ParseInt(proc[p].param)] IN
         /\ serial' = [serial EXCEPT !.followers = @ + 1]
         /\ IF FollowersAccepts(followerData)
            THEN /\ followers' = followers \cup {follow(followerData)}
                 /\ Respond(p, proc[p], RowBody(201, <<follow(followerData)>>))
            ELSE /\ followers' = followers
                 /\ Respond(p, proc[p], Message(400, "Invalid data provided"))
    /\ UNCHANGED <<users, recipes, favorites, session, now, pets, comments>>

\* ---------------------------------------- DELETE /api/users/:userId/follow
FollowDelete_Begin(p) ==
    /\ \E s \in Sessions, uid \in ParamStrings :
         Authenticate(p, Request("DELETE follow", s, uid, NoBody))
    /\ UNCHANGED <<users, recipes, favorites, followers, serial, session, now, pets, comments>>

FollowDelete_isFollowing(p) ==
    /\ At(p, "DELETE follow", "handler")
    /\ LET followingId == ParseInt(proc[p].param) IN
         IF BadInt(followingId)
         THEN Respond(p, proc[p], Message(500, "Server error"))
         ELSE IF ~isFollowing(UserId(p), followingId)
         THEN Respond(p, proc[p], Message(404, "Not following this user"))
         ELSE Goto(p, "unfollow")
    /\ UNCHANGED <<users, recipes, favorites, followers, serial, session, now, pets, comments>>

FollowDelete_unfollow(p) ==
    /\ At(p, "DELETE follow", "unfollow")
    /\ followers' = unfollow(UserId(p), ParseInt(proc[p].param))
    /\ Respond(p, proc[p], Message(200, "Unfollowed successfully"))
    /\ UNCHANGED <<users, recipes, favorites, serial, session, now, pets, comments>>

\* ------------------- GET /api/users/:userId/followers and .../following
\* Neither route is behind authenticate.
FollowersGet(p, params) ==
    /\ \E s \in Sessions, uid \in params :
         /\ Free(p)
         /\ Respond(p, Request("GET followers", s, uid, NoBody),
                    IF BadInt(ParseInt(uid))
                    THEN Message(500, "Server error")
                    ELSE UserBody(200, getFollowers(ParseInt(uid))))
    /\ UNCHANGED <<users, recipes, favorites, followers, serial, session, now, pets, comments>>

FollowingGet(p, params) ==
    /\ \E s \in Sessions, uid \in params :
         /\ Free(p)
         /\ Respond(p, Request("GET following", s, uid, NoBody),
                    IF BadInt(ParseInt(uid))
                    THEN Message(500, "Server error")
                    ELSE UserBody(200, getFollowing(ParseInt(uid))))
    /\ UNCHANGED <<users, recipes, favorites, followers, serial, session, now, pets, comments>>

\* ------------------------------------------------ request bodies: users
Names == {"ana", "bob"}
Emails == {"a@x", "b@x"}
Passwords == {"", "pw", "pw2"}

\* The values a property of a user body takes.
UserFieldValues(k) ==
    IF k = "username" THEN Names
    ELSE IF k = "email" THEN Emails
    ELSE Passwords

\* The user bodies that carry exactly the properties in fields.
UserBodies(fields) ==
    {b \in [fields -> Names \cup Emails \cup Passwords] :
        \A k \in fields : b[k] \in UserFieldValues(k)}

\* insertUserSchema.parse: username, email and password are required.
InsertUserSchemaAccepts(body) ==
    {"username", "email", "password"} \subseteq DOMAIN body

\* ------------------------------------------------ POST /api/auth/register
Register_getUserByEmail(p, bodies) ==
    /\ Free(p)
    /\ serial.users + InFlight("POST register") <= MaxId
    /\ \E s \in Sessions, body \in bodies :
         LET req == Request("POST register", s, "", body) IN
           IF ~InsertUserSchemaAccepts(body)
           THEN Respond(p, req, Message(400, "Invalid data provided"))
           ELSE IF getUserByEmail(body.email) # {}
           THEN Respond(p, req, Message(400, "Email already registered"))
           ELSE /\ proc' = [proc EXCEPT ![p] = [req EXCEPT !.pc = "getUserByUsername"]]
                /\ resp' = NoResp
    /\ UNCHANGED <<users, recipes, favorites, followers, serial, session, now, pets, comments>>

Register_getUserByUsername(p) ==
    /\ At(p, "POST register", "getUserByUsername")
    /\ IF getUserByUsername(proc[p].body.username) # {}
       THEN Respond(p, proc[p], Message(400, "Username already taken"))
       ELSE Goto(p, "createUser")
    /\ UNCHANGED <<users, recipes, favorites, followers, serial, session, now, pets, comments>>

Register_createUser(p) ==
    /\ At(p, "POST register", "createUser")
    /\ LET user == createUser(proc[p].body) IN
         /\ serial' = [serial EXCEPT !.users = @ + 1]
         /\ IF UsersAccepts(user)
            THEN /\ users' = users \cup {user}
                 /\ session' = [session EXCEPT ![proc[p].sess] = user.id]
                 /\ Respond(p, proc[p], UserBody(201, {StripPassword(user)}))
            ELSE /\ users' = users
                 /\ session' = session
                 /\ Respond(p, proc[p], Message(400, "Invalid data provided"))
    /\ UNCHANGED <<recipes, favorites, followers, now, pets, comments>>

\* --------------------------------------------------- POST /api/auth/login
\* const { username, password } = req.body: an absent property is undefined,
\* which is falsy like the empty string.
Prop(body, k) == IF k \in DOMAIN body THEN body[k] ELSE ""

\* (mutant) an unknown username is answered 404 "User not found"
Login_getUserByUsername_NotFound(p, bodies) ==
    /\ Free(p)
    /\ \E s \in Sessions, body \in bodies :
         LET req == Request("POST login", s, "", body) IN
           IF ~Truthy(Prop(body, "username")) \/ ~Truthy(Prop(body, "password"))
           THEN Respond(p, req, Message(400, "Username and password required"))
           ELSE IF getUserByUsername(body.username) = {}
           THEN Respond(p, req, Message(404, "User not found"))
           ELSE /\ proc' = [proc EXCEPT ![p] =
                       [req EXCEPT !.pc = "compare",
                                   !.user = getUserByUsername(body.username)]]
                /\ resp' = NoResp
    /\ UNCHANGED <<users, recipes, favorites, followers, serial, session, now, pets, comments>>

Login_getUserByUsername(p, bodies) ==
    /\ Free(p)
    /\ \E s \in Sessions, body \in bodies :
         LET req == Request("POST login", s, "", body) IN
           IF ~Truthy(Prop(body, "username")) \/ ~Truthy(Prop(body, "password"))
           THEN Respond(p, req, Message(400, "Username and password required"))
           ELSE IF getUserByUsername(body.username) = {}
           THEN Respond(p, req, Message(401, "Invalid credentials"))
           ELSE /\ proc' = [proc EXCEPT ![p] =
                       [req EXCEPT !.pc = "compare",
                                   !.user = getUserByUsername(body.username)]]
                /\ resp' = NoResp
    /\ UNCHANGED <<users, recipes, favorites, followers, serial, session, now, pets, comments>>

Login_compare(p) ==
    /\ At(p, "POST login", "compare")
    /\ LET user == CHOOSE u \in proc[p].user : TRUE IN
         IF ~BcryptCompare(proc[p].body.password, user.password)
         THEN /\ session' = session
              /\ Respond(p, proc[p], Message(401, "Invalid credentials"))
         ELSE /\ session' = [session EXCEPT ![proc[p].sess] = user.id]
              /\ Respond(p, proc[p], UserBody(200, {StripPassword(user)}))
    /\ UNCHANGED <<users, recipes, favorites, followers, serial, now, pets, comments>>

\* ------------------------------------------------------ GET /api/auth/me
Me(p) ==
    /\ \E s \in Sessions :
         LET req == Request("GET me", s, "", NoBody) IN
           /\ Free(p)
           /\ IF session[s] = 0
              THEN Respond(p, req, Message(401, "Unauthorized"))
              ELSE IF getUser(session[s]) = {}
              THEN Respond(p, req, Message(401, "User not found"))
              ELSE Respond(p, req, UserBody(200, getUser(session[s])))
    /\ UNCHANGED <<users, recipes, favorites, followers, serial, session, now, pets, comments>>

\* --------------------------------------------------- PUT /api/users/profile
Profile_Begin(p, bodies) ==
    /\ \E s \in Sessions, body \in bodies :
         Authenticate(p, Request("PUT profile", s, "", body))
    /\ UNCHANGED <<users, recipes, favorites, followers, serial, session, now, pets, comments>>

Profile_updateUser(p) ==
    /\ At(p, "PUT profile", "handler")
    /\ LET updated == updateUser(UserId(p), proc[p].body) IN
         IF \E u \in updated : ~UsersAccepts(u)
         THEN /\ users' = users
              /\ Respond(p, proc[p], Message(400, "Invalid data provided"))
         ELSE /\ users' = {u \in users : u.id # UserId(p)} \cup updated
              /\ Respond(p, proc[p], UserBody(200, {StripPassword(u) : u \in updated}))
    /\ UNCHANGED <<recipes, favorites, followers, serial, session, now, pets, comments>>

\* ------------------------------------------------------ POST /api/recipes
\* req.body.prepTime ? parseInt(req.body.prepTime) : undefined (NaN stands
\* for both: the schema accepts neither)
FormPrepTime(body) ==
    IF "prepTime" \in DOMAIN body /\ Truthy(body.prepTime)
    THEN ParseInt(body.prepTime)
    ELSE NaN

\* insertRecipeSchema.parse(formData): the required properties are present,
\* the enum properties hold one of their values and prepTime is a number.
\* The schema puts no bound on the number.
InsertRecipeSchemaAccepts(formData) ==
    /\ {"title", "ingredients", "petType", "category"} \subseteq DOMAIN formData
    /\ formData.petType \in PetTypes
    /\ formData.category \in Categories
    /\ FormPrepTime(formData) # NaN

\* formData: the body with prepTime parsed and userId set to req.user.id;
\* parse keeps the properties of the schema, which omits id, cookCount and
\* the timestamps.
InsertRecipeSchemaParse(body, userId) ==
    [k \in (DOMAIN body \cap {"title", "ingredients", "petType", "category"})
           \cup {"userId", "prepTime"} |->
        IF k = "userId" THEN userId
        ELSE IF k = "prepTime" THEN FormPrepTime(body)
        ELSE body[k]]

RecipePost_Begin(p, bodies) ==
    /\ serial.recipes + InFlight("POST recipe") <= MaxId
    /\ \E s \in Sessions, body \in bodies :
         Authenticate(p, Request("POST recipe", s, "", body))
    /\ UNCHANGED <<users, recipes, favorites, followers, serial, session, now, pets, comments>>

RecipePost_createRecipe(p) ==
    /\ At(p, "POST recipe", "handler")
    /\ IF ~InsertRecipeSchemaAccepts(proc[p].body)
       THEN /\ UNCHANGED <<recipes, serial, pets, comments>>
            /\ Respond(p, proc[p], Message(400, "Invalid data provided"))
       ELSE LET recipe == createRecipe(
                    InsertRecipeSchemaParse(proc[p].body, UserId(p))) IN
              /\ serial' = [serial EXCEPT !.recipes = @ + 1]
              /\ IF RecipesAccepts(recipe)
                 THEN /\ recipes' = recipes \cup {recipe}
                      /\ Respond(p, proc[p], RowBody(201, <<recipe>>))
                 ELSE /\ recipes' = recipes
                      /\ Respond(p, proc[p], Message(400, "Invalid data provided"))
    /\ UNCHANGED <<users, favorites, followers, session, now, pets, comments>>

\* --------------------------------------------------- PUT /api/recipes/:id
RecipePut_Begin(p, params, bodies) ==
    /\ \E s \in Sessions, id \in params, body \in bodies :
         Authenticate(p, Request("PUT recipe", s, id, body))
    /\ UNCHANGED <<users, recipes, favorites, followers, serial, session, now, pets, comments>>

RecipePut_getRecipe(p) ==
    /\ At(p, "PUT recipe", "handler")
    /\ LET recipeId == ParseInt(proc[p].param) IN
         IF BadInt(recipeId)
         THEN Respond(p, proc[p], Message(400, "Invalid data provided"))
         ELSE IF getRecipe(recipeId) = {}
         THEN Respond(p, proc[p], Message(404, "Recipe not found"))
         ELSE IF \E r \in getRecipe(recipeId) : r.userId # UserId(p)
         THEN Respond(p, proc[p], Message(403, "Not authorized"))
         ELSE Goto(p, "updateRecipe")
    /\ UNCHANGED <<users, recipes, favorites, followers, serial, session, now, pets, comments>>

\* updateData is the body as it came ({ ...req.body }); nothing parses it.
RecipePut_updateRecipe(p) ==
    /\ At(p, "PUT recipe", "updateRecipe")
    /\ IF ~RecipeSetAccepted(proc[p].body)
       THEN /\ recipes' = recipes
            /\ Respond(p, proc[p], Message(400, "Invalid data provided"))
       ELSE LET updated == updateRecipe(ParseInt(proc[p].param), proc[p].body) IN
              /\ recipes' = ReplaceRecipes(updated)
              /\ Respond(p, proc[p],
                         RowBody(200, IF updated = {} THEN <<>>
                                      ELSE <<CHOOSE u \in updated : TRUE>>))
    /\ UNCHANGED <<users, favorites, followers, serial, session, now, pets, comments>>

\* ---------------------------------------------- POST /api/recipes/:id/cook
Cook_Begin(p, params) ==
    /\ \E s \in Sessions, id \in params :
         Authenticate(p, Request("POST cook", s, id, NoBody))
    /\ UNCHANGED <<users, recipes, favorites, followers, serial, session, now, pets, comments>>

Cook_getRecipe(p) ==
    /\ At(p, "POST cook", "handler")
    /\ LET recipeId == ParseInt(proc[p].param) IN
         IF BadInt(recipeId)
         THEN Respond(p, proc[p], Message(500, "Server error"))
         ELSE IF getRecipe(recipeId) = {}
         THEN Respond(p, proc[p], Message(404, "Recipe not found"))
         ELSE Goto(p, "incrementCookCount")
    /\ UNCHANGED <<users, recipes, favorites, followers, serial, session, now, pets, comments>>

Cook_incrementCookCount(p) ==
    /\ At(p, "POST cook", "incrementCookCount")
    /\ IF ~RecipeSetAccepted(IncrementCookCountSet)
       THEN /\ recipes' = recipes
            /\ Respond(p, proc[p], Message(500, "Server error"))
       ELSE LET updated == incrementCookCount(ParseInt(proc[p].param)) IN
              /\ recipes' = ReplaceRecipes(updated)
              /\ Respond(p, proc[p],
                         RowBody(200, IF updated = {} THEN <<>>
                                      ELSE <<CHOOSE u \in updated : TRUE>>))
    /\ UNCHANGED <<users, favorites, followers, serial, session, now, pets, comments>>

\* ------------------------------------------------------ GET /api/recipes
\* The query string: a parameter that is absent reads as undefined, which
\* is falsy like the empty text.  page and limit go through parseInt when
\* they are truthy.
QueryInt(text) == IF Truthy(text) THEN ParseInt(text) ELSE NaN

RecipeOptions(query) ==
    [petType |-> query.petType, category |-> query.category,
     search |-> query.search, page |-> QueryInt(query.page),
     limit |-> QueryInt(query.limit)]

RecipesGet(p, queries) ==
    /\ Free(p)
    /\ \E s \in Sessions, query \in queries :
         LET req == Request("GET recipes", s, "", query)
             options == RecipeOptions(query) IN
           IF ~WhereAccepted(options)
           THEN Respond(p, req, Message(500, "Server error"))
           ELSE \E result \in getRecipes(options) :
                   Respond(p, req, RowBody(200, result))
    /\ UNCHANGED <<users, recipes, favorites, followers, serial, session, now, pets, comments>>

\* ------------------------------------------------- DELETE /api/recipes/:id
RecipeDelete_Begin(p, params) ==
    /\ \E s \in Sessions, id \in params :
         Authenticate(p, Request("DELETE recipe", s, id, NoBody))
    /\ UNCHANGED <<users, recipes, favorites, followers, pets, comments, serial, session, now>>

RecipeDelete_getRecipe(p) ==
    /\ At(p, "DELETE recipe", "handler")
    /\ LET recipeId == ParseInt(proc[p].param) IN
         IF BadInt(recipeId)
         THEN Respond(p, proc[p], Message(500, "Server error"))
         ELSE IF getRecipe(recipeId) = {}
         THEN Respond(p, proc[p], Message(404, "Recipe not found"))
         ELSE IF \E r \in getRecipe(recipeId) : r.userId # UserId(p)
         THEN Respond(p, proc[p], Message(403, "Not authorized"))
         ELSE Goto(p, "deleteRecipe")
    /\ UNCHANGED <<users, recipes, favorites, followers, pets, comments, serial, session, now>>

RecipeDelete_deleteRecipe(p) ==
    /\ At(p, "DELETE recipe", "deleteRecipe")
    /\ StoreBecomes(deleteRecipe(ParseInt(proc[p].param)))
    /\ Respond(p, proc[p], Message(200, "Recipe deleted successfully"))
    /\ UNCHANGED <<serial, session, now>>

\* --------------------------------------------------------- POST /api/pets
\* insertPetSchema.parse: name and type are required and type is one of the
\* enum's values.
InsertPetSchemaAccepts(body) ==
    /\ {"name", "type"} \subseteq DOMAIN body
    /\ body.type \in PetTypes

\* (mutant) { userId: req.user.id, ...req.body }: the body's userId wins
InsertPetSchemaParse_BodyLast(body, userId) ==
    [k \in {"name", "type", "userId"} |->
        IF k # "userId" THEN body[k]
        ELSE IF "userId" \in DOMAIN body THEN ParseInt(body.userId)
        ELSE userId]

\* { ...req.body, userId: req.user.id }, the properties of the schema kept.
InsertPetSchemaParse(body, userId) ==
    [k \in {"name", "type", "userId"} |->
        IF k = "userId" THEN userId ELSE body[k]]

PetPost_Begin(p, bodies) ==
    /\ serial.pets + InFlight("POST pet") <= MaxId
    /\ \E s \in Sessions, body \in bodies :
         Authenticate(p, Request("POST pet", s, "", body))
    /\ UNCHANGED <<users, recipes, favorites, followers, pets, comments, serial, session, now>>

PetPost_createPet(p) ==
    /\ At(p, "POST pet", "handler")
    /\ IF ~InsertPetSchemaAccepts(proc[p].body)
       THEN /\ UNCHANGED <<pets, serial>>
            /\ Respond(p, proc[p], Message(400, "Invalid data provided"))
       ELSE LET pet == createPet(InsertPetSchemaParse(proc[p].body, UserId(p))) IN
              /\ serial' = [serial EXCEPT !.pets = @ + 1]
              /\ IF PetsAccepts(pet)
                 THEN /\ pets' = pets \cup {pet}
                      /\ Respond(p, proc[p], RowBody(201, <<pet>>))
                 ELSE /\ pets' = pets
                      /\ Respond(p, proc[p], Message(400, "Invalid data provided"))
    /\ UNCHANGED <<users, recipes, favorites, followers, comments, session, now>>

\* ------------------------------------------------------ PUT /api/pets/:id
PetPut_Begin(p, params, bodies) ==
    /\ \E s \in Sessions, id \in params, body \in bodies :
         Authenticate(p, Request("PUT pet", s, id, body))
    /\ UNCHANGED <<users, recipes, favorites, followers, pets, comments, serial, session, now>>

PetPut_getPet(p) ==
    /\ At(p, "PUT pet", "handler")
    /\ LET petId == ParseInt(proc[p].param) IN
         IF BadInt(petId)
         THEN Respond(p, proc[p], Message(400, "Invalid data provided"))
         ELSE IF getPet(petId) = {}
         THEN Respond(p, proc[p], Message(404, "Pet not found"))
         ELSE IF \E x \in getPet(petId) : x.userId # UserId(p)
         THEN Respond(p, proc[p], Message(403, "Not authorized"))
         ELSE Goto(p, "updatePet")
    /\ UNCHANGED <<users, recipes, favorites, followers, pets, comments, serial, session, now>>

\* updateData is the body as it came ({ ...req.body }); nothing parses it.
PetPut_updatePet(p) ==
    /\ At(p, "PUT pet", "updatePet")
    /\ IF ~PetSetAccepted(proc[p].body)
       THEN /\ pets' = pets
            /\ Respond(p, proc[p], Message(400, "Invalid data provided"))
       ELSE LET updated == updatePet(ParseInt(proc[p].param), proc[p].body) IN
              /\ pets' = {x \in pets : \A u \in updated : u.id # x.id} \cup updated
              /\ Respond(p, proc[p],
                         RowBody(200, IF updated = {} THEN <<>>
                                      ELSE <<CHOOSE u \in updated : TRUE>>))
    /\ UNCHANGED <<users, recipes, favorites, followers, comments, serial, session, now>>

\* --------------------------------------------------- DELETE /api/pets/:id
PetDelete_Begin(p, params) ==
    /\ \E s \in Sessions, id \in params :
         Authenticate(p, Request("DELETE pet", s, id, NoBody))
    /\ UNCHANGED <<users, recipes, favorites, followers, pets, comments, serial, session, now>>

PetDelete_getPet(p) ==
    /\ At(p, "DELETE pet", "handler")
    /\ LET petId == ParseInt(proc[p].param) IN
         IF BadInt(petId)
         THEN Respond(p, proc[p], Message(500, "Server error"))
         ELSE IF getPet(petId) = {}
         THEN Respond(p, proc[p], Message(404, "Pet not found"))
         ELSE IF \E x \in getPet(petId) : x.userId # UserId(p)
         THEN Respond(p, proc[p], Message(403, "Not authorized"))
         ELSE Goto(p, "deletePet")
    /\ UNCHANGED <<users, recipes, favorites, followers, pets, comments, serial, session, now>>

PetDelete_deletePet(p) ==
    /\ At(p, "DELETE pet", "deletePet")
    /\ pets' = deletePet(ParseInt(proc[p].param))
    /\ Respond(p, proc[p], Message(200, "Pet deleted successfully"))
    /\ UNCHANGED <<users, recipes, favorites, followers, comments, serial, session, now>>

\* ------------------------------------ POST /api/recipes/:recipeId/comments
\* insertCommentSchema.parse: content is required; parentId is a number,
\* null or absent.
InsertCommentSchemaAccepts(body) == "content" \in DOMAIN body

\* { ...req.body, userId: req.user.id, recipeId }, the properties of the
\* schema kept; an absent parentId is stored as NULL.
InsertCommentSchemaParse(body, userId, recipeId) ==
    [userId |-> userId, recipeId |-> recipeId, content |-> body.content,
     parentId |-> IF "parentId" \in DOMAIN body THEN body.parentId ELSE Null]

CommentPost_Begin(p, params, bodies) ==
    /\ serial.comments + InFlight("POST comment") <= MaxComments
    /\ \E s \in Sessions, id \in params, body \in bodies :
         Authenticate(p, Request("POST comment", s, id, body))
    /\ UNCHANGED <<users, recipes, favorites, followers, pets, comments, serial, session, now>>

CommentPost_getRecipe(p) ==
    /\ At(p, "POST comment", "handler")
    /\ LET recipeId == ParseInt(proc[p].param) IN
         IF BadInt(recipeId)
         THEN Respond(p, proc[p], Message(400, "Invalid data provided"))
         ELSE IF getRecipe(recipeId) = {}
         THEN Respond(p, proc[p], Message(404, "Recipe not found"))
         ELSE IF ~InsertCommentSchemaAccepts(proc[p].body)
         THEN Respond(p, proc[p], Message(400, "Invalid data provided"))
         ELSE Goto(p, "createComment")
    /\ UNCHANGED <<users, recipes, favorites, followers, pets, comments, serial, session, now>>

CommentPost_createComment(p) ==
    /\ At(p, "POST comment", "createComment")
    /\ LET comment == createComment(
               InsertCommentSchemaParse(proc[p].body, UserId(p),
                                        ParseInt(proc[p].param))) IN
         /\ serial' = [serial EXCEPT !.comments = @ + 1]
         /\ IF CommentsAccepts(comment)
            THEN /\ comments' = comments \cup {comment}
                 /\ Respond(p, proc[p], RowBody(201, <<comment>>))
            ELSE /\ comments' = comments
                 /\ Respond(p, proc[p], Message(400, "Invalid data provided"))
    /\ UNCHANGED <<users, recipes, favorites, followers, pets, session, now>>

\* ------------------------------------------------ DELETE /api/comments/:id
CommentDelete_Begin(p, params) ==
    /\ \E s \in Sessions, id \in params :
         Authenticate(p, Request("DELETE comment", s, id, NoBody))
    /\ UNCHANGED <<users, recipes, favorites, followers, pets, comments, serial, session, now>>

\* db.select().from(comments).where(eq(comments.id, commentId))
CommentDelete_select(p) ==
    /\ At(p, "DELETE comment", "handler")
    /\ LET commentId == ParseInt(proc[p].param)
           found == {c \in comments : c.id = commentId} IN
         IF BadInt(commentId)
         THEN Respond(p, proc[p], Message(500, "Server error"))
         ELSE IF found = {}
         THEN Respond(p, proc[p], Message(404, "Comment not found"))
         ELSE IF \E c \in found : c.userId # UserId(p)
         THEN Respond(p, proc[p], Message(403, "Not authorized"))
         ELSE Goto(p, "deleteComment")
    /\ UNCHANGED <<users, recipes, favorites, followers, pets, comments, serial, session, now>>

CommentDelete_deleteComment(p) ==
    /\ At(p, "DELETE comment", "deleteComment")
    /\ StoreBecomes(deleteComment(ParseInt(proc[p].param)))
    /\ Respond(p, proc[p], Message(200, "Comment deleted successfully"))
    /\ UNCHANGED <<serial, session, now>>

\* ------- GET /api/recipes/:recipeId/comments, /api/comments/:commentId/replies
CommentsGet(p, params) ==
    /\ Free(p)
    /\ \E id \in params :
         LET req == Request("GET comments", 0, id, NoBody) IN
           IF BadInt(ParseInt(id))
           THEN Respond(p, req, Message(500, "Server error"))
           ELSE \E result \in getComments(ParseInt(id)) :
                   Respond(p, req, RowBody(200, result))
    /\ UNCHANGED <<users, recipes, favorites, followers, pets, comments, serial, session, now>>

RepliesGet(p, params) ==
    /\ Free(p)
    /\ \E id \in params :
         LET req == Request("GET replies", 0, id, NoBody) IN
           IF BadInt(ParseInt(id))
           THEN Respond(p, req, Message(500, "Server error"))
           ELSE \E result \in getReplies(ParseInt(id)) :
                   Respond(p, req, RowBody(200, result))
    /\ UNCHANGED <<users, recipes, favorites, followers, pets, comments, serial, session, now>>

\* ------------------------------------------------- DELETE FROM users
\* No handler and no storage method deletes a user; the row goes when the
\* statement is run on the store itself, under the foreign keys the schema
\* declares.
DeleteUser(ids) ==
    /\ \E id \in ids \cap UserIds : StoreBecomes(DeleteUserFrom(Store, id))
    /\ resp' = NoResp
    /\ UNCHANGED <<serial, session, proc, now>>

\* ------------------------------------------------------------- the clock
Tick ==
    /\ now < MaxClock
    /\ now' = now + 1
    /\ resp' = NoResp
    /\ UNCHANGED <<users, recipes, favorites, followers, serial, session, proc, pets, comments>>

\* ------------------------------------------------------ seeded stores
\* Rows as registration and POST /api/recipes leave them (see the users and
\* recipes handlers): user n registered with password "pw" on session n.
SeedUser(n, name) ==
    [id |-> n, username |-> name, email |-> name, password |-> BcryptHash("pw"),
     createdAt |-> 0, updatedAt |-> 0]

SeedRecipe(n, owner) ==
    [id |-> n, userId |-> owner, title |-> <<"a">>, ingredients |-> <<"b">>,
     petType |-> "dog", category |-> "meat", prepTime |-> 1, cookCount |-> 0,
     createdAt |-> 0, updatedAt |-> 0]

NoTables ==
    /\ users = {}
    /\ recipes = {}
    /\ favorites = {}
    /\ followers = {}
    /\ pets = {}
    /\ comments = {}
    /\ serial = [users |-> 1, recipes |-> 1, favorites |-> 1, followers |-> 1,
                 pets |-> 1, comments |-> 1]

NoRequests ==
    /\ proc = [p \in Procs |-> Idle]
    /\ resp = NoResp

\* --------------------------------------------------------- favorites
\* Two registered users, each logged in on a session, and one recipe.
InitFavorite ==
    /\ users = {SeedUser(1, "ana"), SeedUser(2, "bob")}
    /\ recipes = {SeedRecipe(1, 1)}
    /\ favorites = {}
    /\ followers = {}
    /\ pets = {}
    /\ comments = {}
    /\ serial = [users |-> 3, recipes |-> 2, favorites |-> 1, followers |-> 1,
                 pets |-> 1, comments |-> 1]
    /\ session = [s \in Sessions |-> IF s <= 2 THEN s ELSE 0]
    /\ now = 0
    /\ NoRequests

NextFavorite ==
    \E p \in Procs :
        \/ FavoritePost_Begin(p)
        \/ FavoritePost_getRecipe(p)
        \/ FavoritePost_isFavorite(p)
        \/ FavoritePost_addFavorite(p)
        \/ FavoriteDelete_Begin(p)
        \/ FavoriteDelete_isFavorite(p)
        \/ FavoriteDelete_removeFavorite(p)

SpecFavorite == InitFavorite /\ [][NextFavorite]_vars

\* C1: at most one favorites row per (userId, recipeId) pair in every
\* reachable state, whatever the interleaving of POST and DELETE requests.
C1_OneFavoritePerPair ==
    \A f, g \in favorites :
        (f.userId = g.userId /\ f.recipeId = g.recipeId) => f = g

\* ----------------------------------------------------------- follows
\* Two registered users, each logged in on a session.
InitFollow ==
    /\ users = {SeedUser(1, "ana"), SeedUser(2, "bob")}
    /\ recipes = {}
    /\ favorites = {}
    /\ followers = {}
    /\ pets = {}
    /\ comments = {}
    /\ serial = [users |-> 3, recipes |-> 1, favorites |-> 1, followers |-> 1,
                 pets |-> 1, comments |-> 1]
    /\ session = [s \in Sessions |-> IF s <= 2 THEN s ELSE 0]
    /\ now = 0
    /\ NoRequests

NextFollow ==
    \E p \in Procs :
        \/ FollowPost_Begin(p, ParamStrings)
        \/ FollowPost_getUser(p)
        \/ FollowPost_isFollowing(p)
        \/ FollowPost_follow(p)
        \/ FollowDelete_Begin(p)
        \/ FollowDelete_isFollowing(p)
        \/ FollowDelete_unfollow(p)

SpecFollow == InitFollow /\ [][NextFollow]_vars

\* C2: at most one followers row per (followerId, followingId) pair in every
\* reachable state, whatever the interleaving of POST and DELETE requests.
C2_OneFollowPerPair ==
    \A f, g \in followers :
        (f.followerId = g.followerId /\ f.followingId = g.followingId) => f = g

\* C4: a POST .../follow whose target is the authenticated user itself is
\* answered with a non-2xx status, and no followers row ever has
\* followerId = followingId.
C4_NoSelfFollow ==
    /\ \A f \in followers : f.followerId # f.followingId
    /\ (/\ Answered("POST follow")
        /\ resp.req.userId # 0
        /\ ParseInt(resp.req.param) = resp.req.userId)
       => resp.res.status >= 400

\* C4 witness: a self-follow request was handled and refused.
C4_Witness ==
    /\ Answered("POST follow")
    /\ resp.req.userId # 0
    /\ ParseInt(resp.req.param) = resp.req.userId
    /\ resp.res = Message(400, "Cannot follow yourself")

\* ------------------------------------------------------------- users
\* The empty store and no session logged in.
InitUsers ==
    /\ NoTables
    /\ session = [s \in Sessions |-> 0]
    /\ now = 0
    /\ NoRequests

\* Registrations with every username and email, and one with no property;
\* profile updates of the username, of the email, or of neither.
RegisterBodies ==
    {b \in UserBodies({"username", "email", "password"}) : b.password = "pw"}
    \cup UserBodies({})

RenameBodies ==
    UserBodies({}) \cup UserBodies({"username"}) \cup UserBodies({"email"})

NextUsers ==
    \E p \in Procs :
        \/ Register_getUserByEmail(p, RegisterBodies)
        \/ Register_getUserByUsername(p)
        \/ Register_createUser(p)
        \/ Profile_Begin(p, RenameBodies)
        \/ Profile_updateUser(p)

SpecUsers == InitUsers /\ [][NextUsers]_vars

\* Some users row holds the username or the email of body.
NameOrEmailHeld(body) ==
    \E u \in users : u.username = body.username \/ u.email = body.email

\* C3: no two users rows share a username or an email; and a registration
\* that is answered while another row holds its username or its email is
\* answered 400, adds no row and leaves the session as it was.
C3_UniqueUsers ==
    /\ [](\A u, v \in users :
            (u.username = v.username \/ u.email = v.email) => u = v)
    /\ [][(/\ resp'.req.op = "POST register"
           /\ InsertUserSchemaAccepts(resp'.req.body)
           /\ NameOrEmailHeld(resp'.req.body))
          => (/\ resp'.res.status = 400
              /\ users' = users
              /\ session' = session)]_vars

\* C3 witness: two registrations passed both existence checks and the
\* second insert was refused by the table.
C3_Witness ==
    /\ Answered("POST register")
    /\ resp.req.pc = "createUser"
    /\ resp.res.status = 400
    /\ Cardinality(users) = 1

\* ---------------------------------------------------------- accounts
\* Every route that answers with user records, from the empty store: two
\* people register, log in, read and update their profile, the second
\* follows the first, and followers and followed are listed.
AccountRegisterBodies ==
    {b \in UserBodies({"username", "email", "password"}) :
        /\ b.password = "pw"
        /\ \/ b.username = "ana" /\ b.email = "a@x"
           \/ b.username = "bob" /\ b.email = "b@x"}

AccountLoginBodies ==
    {b \in UserBodies({"username", "password"}) :
        b.username = "ana" /\ b.password = "pw"}

AccountProfileBodies == UserBodies({})

NextAccounts ==
    \E p \in Procs :
        \/ Register_getUserByEmail(p, AccountRegisterBodies)
        \/ Register_getUserByUsername(p)
        \/ Register_createUser(p)
        \/ Login_getUserByUsername(p, AccountLoginBodies)
        \/ Login_compare(p)
        \/ Me(p)
        \/ Profile_Begin(p, AccountProfileBodies)
        \/ Profile_updateUser(p)
        \/ FollowPost_Begin(p, {"1"})
        \/ FollowPost_getUser(p)
        \/ FollowPost_isFollowing(p)
        \/ FollowPost_follow(p)
        \/ FollowersGet(p, {"1"})
        \/ FollowingGet(p, {"2"})

SpecAccounts == InitUsers /\ [][NextAccounts]_vars

\* C5: no response carries a user record with a password property.
C5_NoPasswordInResponse ==
    \A u \in resp.res.users : "password" \notin DOMAIN u

\* C5 witness: a login answered 200 with the user it read by username.
C5_Witness ==
    /\ Answered("POST login")
    /\ resp.res.status = 200
    /\ resp.res.users # {}

\* -------------------------------------------------------- passwords
\* One person registers and changes the password, with every plaintext.
PasswordRegisterBodies ==
    {b \in UserBodies({"username", "email", "password"}) :
        b.username = "ana" /\ b.email = "a@x"}

PasswordLoginBodies ==
    {b \in UserBodies({"username", "password"}) : b.username = "ana"}

PasswordProfileBodies == UserBodies({"password"}) \cup UserBodies({})

NextPasswords ==
    \E p \in Procs :
        \/ Register_getUserByEmail(p, PasswordRegisterBodies)
        \/ Register_getUserByUsername(p)
        \/ Register_createUser(p)
        \/ Login_getUserByUsername(p, PasswordLoginBodies)
        \/ Login_compare(p)
        \/ Profile_Begin(p, PasswordProfileBodies)
        \/ Profile_updateUser(p)

SpecPasswords == InitUsers /\ [][NextPasswords]_vars

\* C6: every persisted password is the bcrypt digest of a plaintext, never
\* the text that was supplied, for every supplied string, the empty one
\* included.
C6_PasswordsHashed ==
    \A u \in users : u.password.hashed

\* ------------------------------------------------------------ cooking
\* One registered user, logged in, who creates recipes, edits them and
\* marks them cooked.
CookRecipeBodies ==
    {[title |-> <<"a">>, ingredients |-> <<"b">>, petType |-> "dog",
      category |-> "meat", prepTime |-> "1"],
     [title |-> <<"a">>, ingredients |-> <<"b">>, petType |-> "dog",
      category |-> "meat", prepTime |-> "1",
      cookCount |-> "2"],
     [title |-> <<"a">>, ingredients |-> <<"b">>, petType |-> "bird",
      category |-> "meat", prepTime |-> "1"]}

CookUpdateBodies ==
    {[title |-> <<"b">>], [cookCount |-> "0"], [cookCount |-> "1"],
     [cookCount |-> "abc"]}

InitCook ==
    /\ users = {SeedUser(1, "ana")}
    /\ recipes = {}
    /\ favorites = {}
    /\ followers = {}
    /\ pets = {}
    /\ comments = {}
    /\ serial = [users |-> 2, recipes |-> 1, favorites |-> 1, followers |-> 1,
                 pets |-> 1, comments |-> 1]
    /\ session = [s \in Sessions |-> IF s = 1 THEN 1 ELSE 0]
    /\ now = 0
    /\ NoRequests

NextCook ==
    \E p \in Procs :
        \/ RecipePost_Begin(p, CookRecipeBodies)
        \/ RecipePost_createRecipe(p)
        \/ RecipePut_Begin(p, {"1"}, CookUpdateBodies)
        \/ RecipePut_getRecipe(p)
        \/ RecipePut_updateRecipe(p)
        \/ Cook_Begin(p, {"1", "abc"})
        \/ Cook_getRecipe(p)
        \/ Cook_incrementCookCount(p)

SpecCook == InitCook /\ [][NextCook]_vars

\* C7: every incrementCookCount(id) call on an existing recipe adds exactly
\* one to its cookCount and returns the recipe with the incremented count,
\* so that M calls take N to N + M.
C7_NoLostUpdate ==
    [][\A p \in Procs :
         (/\ At(p, "POST cook", "incrementCookCount")
          /\ proc'[p] = Idle
          /\ getRecipe(ParseInt(proc[p].param)) # {})
         => \E r \in recipes, r2 \in recipes' :
              /\ r.id = ParseInt(proc[p].param)
              /\ r2.id = r.id
              /\ r2.cookCount = r.cookCount + 1
              /\ resp'.res.rows = <<r2>>]_vars

\* C8: cookCount is 0 on creation, is never negative and never decreases,
\* and no request other than cook changes it.
C8_CookCountMonotonic ==
    /\ [](\A r \in recipes : r.cookCount >= 0)
    /\ [][/\ \A r2 \in recipes' :
               (\A r \in recipes : r.id # r2.id) => r2.cookCount = 0
          /\ \A r \in recipes, r2 \in recipes' :
               r.id = r2.id =>
                 /\ r2.cookCount >= r.cookCount
                 /\ (r2.cookCount # r.cookCount => resp'.req.op = "POST cook")]_vars

\* ------------------------------------------------------------ browsing
\* One registered user, logged in, who publishes recipes while the list is
\* queried with every combination of filters and pages.
BrowseRecipeBodies ==
    {[title |-> <<"a">>, ingredients |-> <<"c">>, petType |-> "dog",
      category |-> "treats", prepTime |-> "1"],
     [title |-> <<"a">>, ingredients |-> <<"c">>, petType |-> "cat",
      category |-> "treats", prepTime |-> "1"],
     [title |-> <<"b">>, ingredients |-> <<"c">>, petType |-> "dog",
      category |-> "meat", prepTime |-> "1"]}

BrowseQueries ==
    [petType : {"", "dog"}, category : {"", "treats"},
     search : {<<>>, <<"a">>, <<"_">>},
     page : {"", "1", "2"}, limit : {"", "1"}]

InitBrowse == InitCook

NextBrowse ==
    \/ Tick
    \/ \E p \in Procs :
        \/ RecipePost_Begin(p, BrowseRecipeBodies)
        \/ RecipePost_createRecipe(p)
        \/ RecipesGet(p, BrowseQueries)

SpecBrowse == InitBrowse /\ [][NextBrowse]_vars

\* substring: text contains search.
Contains(text, search) ==
    \E i \in 1..(Len(text) + 1) :
        /\ i + Len(search) - 1 <= Len(text)
        /\ SubSeq(text, i, i + Len(search) - 1) = search

\* A recipe satisfies every filter the query supplies.
SatisfiesAll(r, query) ==
    /\ Truthy(query.petType) => r.petType = query.petType
    /\ Truthy(query.category) => r.category = query.category
    /\ query.search # <<>> =>
         (Contains(r.title, query.search) \/ Contains(r.ingredients, query.search))

\* C9: every recipe getRecipes returns satisfies all the supplied filters
\* at once: petType and category and (title or ingredients contains search).
C9_FiltersConjoined ==
    (Answered("GET recipes") /\ resp.res.status = 200) =>
        \A i \in DOMAIN resp.res.rows :
            SatisfiesAll(resp.res.rows[i], resp.req.body)

\* The page and the limit a query asks for: absent page is 1, absent limit
\* is the default.
PageOf(query) == IF Truthy(query.page) THEN ParseInt(query.page) ELSE 1
LimitOfQuery(query) ==
    IF Truthy(query.limit) THEN ParseInt(query.limit) ELSE DefaultLimit

\* C10: page p >= 1 with limit L >= 1 (page absent: 1, limit absent: 10) is
\* the elements at positions (p-1)*L .. p*L-1 of the recipes matching the
\* filters, sorted newest-first by createdAt.
C10_PageOfSorted ==
    (/\ Answered("GET recipes")
     /\ resp.res.status = 200
     /\ PageOf(resp.req.body) >= 1
     /\ LimitOfQuery(resp.req.body) >= 1) =>
        \E q \in NewestFirst({r \in recipes : SatisfiesAll(r, resp.req.body)}) :
            resp.res.rows =
                LimitOffset(q, LimitOfQuery(resp.req.body),
                            (PageOf(resp.req.body) - 1) * LimitOfQuery(resp.req.body))

\* ----------------------------------------------------------- comments
\* A comment as POST .../comments leaves it.
SeedComment(n, author, recipe, parent) ==
    [id |-> n, userId |-> author, recipeId |-> recipe, parentId |-> parent,
     content |-> "x", createdAt |-> 0, updatedAt |-> 0]

\* Two users and a recipe of each, and an earlier comment of ana on recipe 1
\* (the clock reads 1, later than the seeded timestamps); ana, logged in,
\* comments on both recipes and replies to comments while the lists are read.
CommentBodies ==
    {[content |-> "x"]} \cup [content : {"x"}, parentId : {1, 2}]

InitComments ==
    /\ users = {SeedUser(1, "ana"), SeedUser(2, "bob")}
    /\ recipes = {SeedRecipe(1, 1), SeedRecipe(2, 2)}
    /\ favorites = {}
    /\ followers = {}
    /\ pets = {}
    /\ comments = {SeedComment(1, 1, 1, Null)}
    /\ serial = [users |-> 3, recipes |-> 3, favorites |-> 1, followers |-> 1,
                 pets |-> 1, comments |-> 2]
    /\ session = [s \in Sessions |-> IF s = 1 THEN 1 ELSE 0]
    /\ now = 1
    /\ NoRequests

NextComments ==
    \E p \in Procs :
        \/ CommentPost_Begin(p, {"1", "2"}, CommentBodies)
        \/ CommentPost_getRecipe(p)
        \/ CommentPost_createComment(p)
        \/ CommentsGet(p, {"1", "abc"})
        \/ RepliesGet(p, {"1", "abc"})

SpecComments == InitComments /\ [][NextComments]_vars

\* The sequence q lists exactly the rows of set rows, each once, newest
\* first.
ListsNewestFirst(q, rows) ==
    /\ Len(q) = Cardinality(rows)
    /\ {q[i] : i \in DOMAIN q} = rows
    /\ \A i, j \in DOMAIN q : i < j => q[i].createdAt >= q[j].createdAt

SeedFavorite(n, user, recipe) ==
    [id |-> n, userId |-> user, recipeId |-> recipe, createdAt |-> 0]

\* A followers row as POST .../follow leaves it.
SeedFollower(n, follower, following) ==
    [id |-> n, followerId |-> follower, followingId |-> following,
     createdAt |-> 0]

\* Two users with a recipe each, who follow each other and have favorited
\* each other's recipe, and a comment of bob on ana's recipe; ana, logged
\* in, adds a pet, comments and replies, and either user's row is deleted
\* from the store at any moment.
InitDeleteUser ==
    /\ users = {SeedUser(1, "ana"), SeedUser(2, "bob")}
    /\ recipes = {SeedRecipe(1, 1), SeedRecipe(2, 2)}
    /\ favorites = {SeedFavorite(1, 1, 2), SeedFavorite(2, 2, 1)}
    /\ followers = {SeedFollower(1, 1, 2), SeedFollower(2, 2, 1)}
    /\ pets = {}
    /\ comments = {SeedComment(1, 2, 1, Null)}
    /\ serial = [users |-> 3, recipes |-> 3, favorites |-> 3, followers |-> 3,
                 pets |-> 1, comments |-> 2]
    /\ session = [s \in Sessions |-> IF s = 1 THEN 1 ELSE 0]
    /\ now = 0
    /\ NoRequests

DeleteUserPetBodies == {[name |-> "rex", type |-> "dog"]}

DeleteUserCommentBodies == {[content |-> "x"], [content |-> "x", parentId |-> 1]}

NextDeleteUser ==
    \/ DeleteUser({1, 2})
    \/ \E p \in Procs :
        \/ PetPost_Begin(p, DeleteUserPetBodies)
        \/ PetPost_createPet(p)
        \/ CommentPost_Begin(p, {"1", "2"}, DeleteUserCommentBodies)
        \/ CommentPost_getRecipe(p)
        \/ CommentPost_createComment(p)

SpecDeleteUser == InitDeleteUser /\ [][NextDeleteUser]_vars

\* C12: when a users row is deleted, the resulting state holds no pet,
\* recipe, comment, favorite or follower row of that user, and no comment or
\* favorite on one of that user's recipes.
C12_UserDeleteCascades ==
    [][\A u \in users :
         (\A v \in users' : v.id # u.id) =>
            /\ \A x \in pets' : x.userId # u.id
            /\ \A r \in recipes' : r.userId # u.id
            /\ \A c \in comments' :
                 /\ c.userId # u.id
                 /\ \A r \in recipes : r.userId = u.id => c.recipeId # r.id
            /\ \A f \in favorites' :
                 /\ f.userId # u.id
                 /\ \A r \in recipes : r.userId = u.id => f.recipeId # r.id
            /\ \A f \in followers' :
                 f.followerId # u.id /\ f.followingId # u.id]_vars

\* C12 witness: bob's row was deleted after ana had a pet and had commented
\* twice; ana's pet, her recipe and a comment of hers on it remain, and
\* nothing of bob's.
C12_Witness ==
    /\ {u.id : u \in users} = {1}
    /\ serial.comments = 4
    /\ pets # {}
    /\ {r.id : r \in recipes} = {1}
    /\ Cardinality(comments) = 1
    /\ favorites = {}
    /\ followers = {}

\* ---------------------------------------------- deleting recipes, comments
\* ana, logged in, owns two recipes, both her favorites, a comment on the
\* second and a pet; she comments on the first and replies up to two levels
\* deep, and deletes recipes, comments and pets, also twice at the same
\* time.
InitDeletes ==
    /\ users = {SeedUser(1, "ana"), SeedUser(2, "bob")}
    /\ recipes = {SeedRecipe(1, 1), SeedRecipe(2, 1)}
    /\ favorites = {SeedFavorite(1, 1, 1), SeedFavorite(2, 1, 2)}
    /\ followers = {}
    /\ pets = {[id |-> 1, userId |-> 1, name |-> "rex", type |-> "dog",
                 createdAt |-> 0, updatedAt |-> 0]}
    /\ comments = {SeedComment(1, 1, 2, Null)}
    /\ serial = [users |-> 3, recipes |-> 3, favorites |-> 3, followers |-> 1,
                 pets |-> 2, comments |-> 2]
    /\ session = [s \in Sessions |-> IF s = 1 THEN 1 ELSE 0]
    /\ now = 0
    /\ NoRequests

DeletesCommentBodies ==
    {[content |-> "x"]} \cup [content : {"x"}, parentId : {1, 2}]

NextDeletes ==
    \E p \in Procs :
        \/ CommentPost_Begin(p, {"1"}, DeletesCommentBodies)
        \/ CommentPost_getRecipe(p)
        \/ CommentPost_createComment(p)
        \/ RecipeDelete_Begin(p, {"1"})
        \/ RecipeDelete_getRecipe(p)
        \/ RecipeDelete_deleteRecipe(p)
        \/ CommentDelete_Begin(p, {"1", "2"})
        \/ CommentDelete_select(p)
        \/ CommentDelete_deleteComment(p)
        \/ PetDelete_Begin(p, {"1"})
        \/ PetDelete_getPet(p)
        \/ PetDelete_deletePet(p)

SpecDeletes == InitDeletes /\ [][NextDeletes]_vars

\* Comment c is one of ids or has one of them among its first n ancestors.
RECURSIVE IsUnderWithin(_, _, _)
IsUnderWithin(c, ids, n) ==
    \/ c.id \in ids
    \/ /\ n > 0
       /\ \E d \in comments : d.id = c.parentId /\ IsUnderWithin(d, ids, n - 1)

\* Comment c is one of ids or has an ancestor among them (a chain of parents
\* passes through no more comments than there are).
IsUnder(c, ids) == IsUnderWithin(c, ids, Cardinality(comments))

\* C13: deleteRecipe(id) leaves no comment and no favorite of the recipe,
\* deleteComment(id) leaves no transitive reply of the comment, and every
\* row not under the deleted one stays as it was.
C13_DeletesCascade ==
    [][/\ (resp'.req.op = "DELETE recipe" /\ resp'.req.pc = "deleteRecipe") =>
            LET id == ParseInt(resp'.req.param)
                on == {c.id : c \in {x \in comments : x.recipeId = id}} IN
              /\ recipes' = {r \in recipes : r.id # id}
              /\ favorites' = {f \in favorites : f.recipeId # id}
              /\ comments' = {c \in comments : ~IsUnder(c, on)}
              /\ \A c \in comments' : c.recipeId # id
              /\ UNCHANGED <<users, pets, followers>>
       /\ (resp'.req.op = "DELETE comment" /\ resp'.req.pc = "deleteComment") =>
            LET id == ParseInt(resp'.req.param) IN
              /\ comments' = {c \in comments : ~IsUnder(c, {id})}
              /\ UNCHANGED <<users, recipes, favorites, pets, followers>>]_vars

\* C13 witness: comment 1 was deleted after two more comments were made on
\* the other recipe, and only the one that was no reply is left.
C13_Witness ==
    /\ Answered("DELETE comment")
    /\ resp.req.param = "1"
    /\ resp.res.status = 200
    /\ \E c \in comments : c.id = 3 /\ c.parentId = Null
    /\ Cardinality(comments) = 1
    /\ serial.comments = 4

\* ----------------------------------------------------------- ownership
\* A pet as POST /api/pets leaves it.
SeedPet(n, owner) ==
    [id |-> n, userId |-> owner, name |-> "rex", type |-> "dog",
     createdAt |-> 0, updatedAt |-> 0]

\* ana and bob each own a recipe, a pet and a comment; ana, logged in,
\* updates and deletes rows of both.
InitOwner ==
    /\ users = {SeedUser(1, "ana"), SeedUser(2, "bob")}
    /\ recipes = {SeedRecipe(1, 1), SeedRecipe(2, 2)}
    /\ favorites = {}
    /\ followers = {}
    /\ pets = {SeedPet(1, 1), SeedPet(2, 2)}
    /\ comments = {SeedComment(1, 1, 1, Null), SeedComment(2, 2, 1, Null)}
    /\ serial = [users |-> 3, recipes |-> 3, favorites |-> 1, followers |-> 1,
                 pets |-> 3, comments |-> 3]
    /\ session = [s \in Sessions |-> IF s = 1 THEN 1 ELSE 0]
    /\ now = 0
    /\ NoRequests

OwnerRecipeBodies == {[title |-> <<"b">>], [userId |-> "2"]}

OwnerPetBodies == {[name |-> "max"], [userId |-> "2"]}

NextOwner ==
    \E p \in Procs :
        \/ RecipePut_Begin(p, {"1", "2"}, OwnerRecipeBodies)
        \/ RecipePut_getRecipe(p)
        \/ RecipePut_updateRecipe(p)
        \/ RecipeDelete_Begin(p, {"1", "2"})
        \/ RecipeDelete_getRecipe(p)
        \/ RecipeDelete_deleteRecipe(p)
        \/ PetPut_Begin(p, {"1", "2"}, OwnerPetBodies)
        \/ PetPut_getPet(p)
        \/ PetPut_updatePet(p)
        \/ PetDelete_Begin(p, {"1", "2"})
        \/ PetDelete_getPet(p)
        \/ PetDelete_deletePet(p)
        \/ CommentDelete_Begin(p, {"1", "2"})
        \/ CommentDelete_select(p)
        \/ CommentDelete_deleteComment(p)

SpecOwner == InitOwner /\ [][NextOwner]_vars

\* C14: a PUT or DELETE on a pet or a recipe, or a DELETE on a comment,
\* changes or removes the row it names only if the row belongs to the
\* requesting user when the write is applied; answered for a row of another
\* user, the request gets 403 and writes nothing.
C14_OwnerOnlyWrites ==
    [][LET id == ParseInt(resp'.req.param)
           u == resp'.req.userId
           others(op, rows) ==
               /\ resp'.req.op = op
               /\ u # 0
               /\ \E r \in rows : r.id = id /\ r.userId # u IN
         /\ (others("PUT recipe", recipes) \/ others("DELETE recipe", recipes)
             \/ others("PUT pet", pets) \/ others("DELETE pet", pets)
             \/ others("DELETE comment", comments))
            => /\ resp'.res.status = 403
               /\ UNCHANGED <<users, recipes, favorites, followers, pets, comments>>]_vars

\* ------------------------------------------------ system-assigned fields
\* C15: id, createdAt, updatedAt and cookCount of a recipes row never take a
\* value from a request body: a created row gets the next id, the clock's
\* reading and cookCount 0, and an updated row keeps its id, createdAt and
\* cookCount and gets the clock's reading as updatedAt.
C15_SystemFieldsNotFromBody ==
    [][/\ (resp'.req.op = "POST recipe") =>
            (\A r2 \in recipes' \ recipes :
                /\ r2.id = serial.recipes
                /\ r2.cookCount = 0
                /\ r2.createdAt = now
                /\ r2.updatedAt = now)
       /\ (resp'.req.op = "PUT recipe") =>
            (/\ \A r \in recipes, r2 \in recipes' :
                  (r.id = r2.id /\ r2 # r) =>
                      /\ r2.cookCount = r.cookCount
                      /\ r2.createdAt = r.createdAt
                      /\ r2.updatedAt = now
             /\ {r2.id : r2 \in recipes'} = RecipeIds)]_vars

\* ------------------------------------------------------- enumerated values
\* ana, logged in, owns a pet; she publishes recipes, updates recipe and pet
\* and lists recipes, with values inside and outside the enumerations.
InitEnums ==
    /\ users = {SeedUser(1, "ana")}
    /\ recipes = {}
    /\ favorites = {}
    /\ followers = {}
    /\ pets = {SeedPet(1, 1)}
    /\ comments = {}
    /\ serial = [users |-> 2, recipes |-> 1, favorites |-> 1, followers |-> 1,
                 pets |-> 2, comments |-> 1]
    /\ session = [s \in Sessions |-> IF s = 1 THEN 1 ELSE 0]
    /\ now = 0
    /\ NoRequests

EnumRecipeBodies ==
    [title : {<<"a">>}, ingredients : {<<"b">>}, petType : {"dog", "bird"},
     category : {"meat", "soup"}, prepTime : {"1"}]

EnumRecipeUpdateBodies == {[petType |-> "cat"], [petType |-> "bird"],
                           [category |-> "soup"]}

EnumPetBodies == {[type |-> "cat"], [type |-> "bird"]}

EnumQueries ==
    [petType : {"", "dog", "bird"}, category : {"", "meat", "soup"},
     search : {<<>>, <<"a">>}, page : {""}, limit : {""}]

NextEnums ==
    \E p \in Procs :
        \/ RecipePost_Begin(p, EnumRecipeBodies)
        \/ RecipePost_createRecipe(p)
        \/ RecipePut_Begin(p, {"1"}, EnumRecipeUpdateBodies)
        \/ RecipePut_getRecipe(p)
        \/ RecipePut_updateRecipe(p)
        \/ PetPut_Begin(p, {"1"}, EnumPetBodies)
        \/ PetPut_getPet(p)
        \/ PetPut_updatePet(p)
        \/ RecipesGet(p, EnumQueries)

SpecEnums == InitEnums /\ [][NextEnums]_vars

\* The request carries a pet type or a category outside its enumeration.
OutsideEnums(req) ==
    \/ /\ req.op \in {"POST recipe", "PUT recipe", "GET recipes"}
       /\ \/ /\ "petType" \in DOMAIN req.body
             /\ Truthy(req.body.petType)
             /\ req.body.petType \notin PetTypes
          \/ /\ "category" \in DOMAIN req.body
             /\ Truthy(req.body.category)
             /\ req.body.category \notin Categories
    \/ /\ req.op = "PUT pet"
       /\ "type" \in DOMAIN req.body
       /\ req.body.type \notin PetTypes

\* C16: a request that carries a pet type or a category outside its
\* enumeration is rejected, on create, update and list alike, and before the
\* handler has called the storage interface; no stored pet or recipe holds
\* a value outside the enumerations.
C16_EnumsValidatedFirst ==
    /\ \A r \in recipes : r.petType \in PetTypes /\ r.category \in Categories
    /\ \A x \in pets : x.type \in PetTypes
    /\ (resp.req.userId # 0 \/ resp.req.op = "GET recipes") /\ OutsideEnums(resp.req)
         => /\ resp.res.status \in {400, 500}
            /\ resp.req.pc = "handler"

\* ------------------------------------------------------ preparation time
\* ana, logged in, publishes and edits recipes with every kind of prepTime:
\* positive, zero, no number, empty and absent.
PrepTimeRecipeBodies ==
    [title : {<<"a">>}, ingredients : {<<"b">>}, petType : {"dog"},
     category : {"meat"}, prepTime : {"", "0", "1", "abc"}]
    \cup [title : {<<"a">>}, ingredients : {<<"b">>}, petType : {"dog"},
          category : {"meat"}]

PrepTimeUpdateBodies == {[prepTime |-> "0"], [prepTime |-> "2"],
                         [prepTime |-> "abc"], [title |-> <<"b">>]}

InitPrepTime == InitCook

NextPrepTime ==
    \E p \in Procs :
        \/ RecipePost_Begin(p, PrepTimeRecipeBodies)
        \/ RecipePost_createRecipe(p)
        \/ RecipePut_Begin(p, {"1"}, PrepTimeUpdateBodies)
        \/ RecipePut_getRecipe(p)
        \/ RecipePut_updateRecipe(p)

SpecPrepTime == InitPrepTime /\ [][NextPrepTime]_vars

\* C17: every stored recipe has prepTime > 0, whatever the bodies of the
\* POST /recipes and PUT /recipes/:id requests.
C17_PrepTimePositive ==
    \A r \in recipes : r.prepTime > 0

\* ------------------------------------------- removing favorites, follows
\* Two users and a recipe; ana, logged in, favorites and unfavorites the
\* recipe and follows and unfollows bob, also twice at the same time.
InitRemovals == InitFavorite

NextRemovals ==
    \E p \in Procs :
        \/ FavoritePost_Begin(p)
        \/ FavoritePost_getRecipe(p)
        \/ FavoritePost_isFavorite(p)
        \/ FavoritePost_addFavorite(p)
        \/ FavoriteDelete_Begin(p)
        \/ FavoriteDelete_isFavorite(p)
        \/ FavoriteDelete_removeFavorite(p)
        \/ FollowPost_Begin(p, {"2"})
        \/ FollowPost_getUser(p)
        \/ FollowPost_isFollowing(p)
        \/ FollowPost_follow(p)
        \/ FollowDelete_Begin(p)
        \/ FollowDelete_isFollowing(p)
        \/ FollowDelete_unfollow(p)

SpecRemovals == InitRemovals /\ [][NextRemovals]_vars

\* C18: a DELETE .../favorite (a DELETE .../follow) is answered 200 only
\* when it removes a row; answered while no favorites (followers) row of the
\* user and the recipe (the followed user) exists, it gets 404 and the store
\* stays as it is.
C18_RemoveNeedsRow ==
    [][LET id == ParseInt(resp'.req.param)
           u == resp'.req.userId IN
         /\ (resp'.req.op = "DELETE favorite" /\ u # 0 /\ id # NaN) =>
              /\ resp'.res.status = 200 => favorites' # favorites
              /\ ~isFavorite(u, id) =>
                    (resp'.res.status = 404 /\ favorites' = favorites)
         /\ (resp'.req.op = "DELETE follow" /\ u # 0 /\ id # NaN) =>
              /\ resp'.res.status = 200 => followers' # followers
              /\ ~isFollowing(u, id) =>
                    (resp'.res.status = 404 /\ followers' = followers)]_vars

\* ----------------------------------------------------- idempotent deletes
\* ana, logged in, owns two recipes, both her favorites, a pet, a comment
\* with a reply on the second recipe and a comment on the first; she deletes
\* recipes, comments and pets, also twice at the same time.
InitDeleteTwice ==
    /\ users = {SeedUser(1, "ana"), SeedUser(2, "bob")}
    /\ recipes = {SeedRecipe(1, 1), SeedRecipe(2, 1)}
    /\ favorites = {SeedFavorite(1, 1, 1), SeedFavorite(2, 1, 2)}
    /\ followers = {}
    /\ pets = {SeedPet(1, 1)}
    /\ comments = {SeedComment(1, 1, 2, Null), SeedComment(2, 1, 2, 1),
                   SeedComment(3, 1, 1, Null)}
    /\ serial = [users |-> 3, recipes |-> 3, favorites |-> 3, followers |-> 1,
                 pets |-> 2, comments |-> 4]
    /\ session = [s \in Sessions |-> IF s = 1 THEN 1 ELSE 0]
    /\ now = 0
    /\ NoRequests

NextDeleteTwice ==
    \E p \in Procs :
        \/ RecipeDelete_Begin(p, {"1", "2"})
        \/ RecipeDelete_getRecipe(p)
        \/ RecipeDelete_deleteRecipe(p)
        \/ CommentDelete_Begin(p, {"1", "2"})
        \/ CommentDelete_select(p)
        \/ CommentDelete_deleteComment(p)
        \/ PetDelete_Begin(p, {"1"})
        \/ PetDelete_getPet(p)
        \/ PetDelete_deletePet(p)

SpecDeleteTwice == InitDeleteTwice /\ [][NextDeleteTwice]_vars

\* C19: deletePet, deleteRecipe and deleteComment return true whether or
\* not the row exists, leave the store as it is when it does not, and
\* applied twice leave the store as applied once.
C19_DeleteIdempotent ==
    /\ [](\A id \in Numbers :
            /\ DeleteResult(getPet(id) # {})
            /\ DeleteResult(getRecipe(id) # {})
            /\ DeleteResult(id \in CommentIds)
            /\ getPet(id) = {} => DeletePetsFrom(Store, {id}) = Store
            /\ getRecipe(id) = {} => DeleteRecipesFrom(Store, {id}) = Store
            /\ id \notin CommentIds => DeleteCommentsFrom(Store, {id}) = Store
            /\ DeletePetsFrom(DeletePetsFrom(Store, {id}), {id})
                   = DeletePetsFrom(Store, {id})
            /\ DeleteRecipesFrom(DeleteRecipesFrom(Store, {id}), {id})
                   = DeleteRecipesFrom(Store, {id})
            /\ DeleteCommentsFrom(DeleteCommentsFrom(Store, {id}), {id})
                   = DeleteCommentsFrom(Store, {id}))
    /\ [][\A p \in Procs :
            LET id == ParseInt(proc[p].param)
                missing ==
                    \/ At(p, "DELETE pet", "deletePet") /\ getPet(id) = {}
                    \/ At(p, "DELETE recipe", "deleteRecipe") /\ getRecipe(id) = {}
                    \/ At(p, "DELETE comment", "deleteComment") /\ id \notin CommentIds IN
              (missing /\ proc'[p] = Idle) =>
                  /\ resp'.res.status = 200
                  /\ UNCHANGED <<users, recipes, favorites, followers, pets, comments>>]_vars

\* C19 witness: a DELETE of recipe 1 was answered 200 and a second DELETE of
\* recipe 1, past its existence check, is about to run deleteRecipe on the
\* missing row.
C19_Witness ==
    /\ Answered("DELETE recipe")
    /\ resp.res.status = 200
    /\ getRecipe(1) = {}
    /\ comments # {}
    /\ \E p \in Procs : At(p, "DELETE recipe", "deleteRecipe") /\ proc[p].param = "1"

\* ------------------------------------------- cooking a deleted recipe
\* ana, logged in, owns recipe 1; she marks it cooked, deletes it and
\* publishes another, in any interleaving.
InitCookDelete ==
    /\ users = {SeedUser(1, "ana")}
    /\ recipes = {SeedRecipe(1, 1)}
    /\ favorites = {}
    /\ followers = {}
    /\ pets = {}
    /\ comments = {}
    /\ serial = [users |-> 2, recipes |-> 2, favorites |-> 1, followers |-> 1,
                 pets |-> 1, comments |-> 1]
    /\ session = [s \in Sessions |-> IF s = 1 THEN 1 ELSE 0]
    /\ now = 0
    /\ NoRequests

CookDeleteRecipeBodies ==
    {[title |-> <<"a">>, ingredients |-> <<"b">>, petType |-> "dog",
      category |-> "meat", prepTime |-> "1"]}

NextCookDelete ==
    \E p \in Procs :
        \/ RecipePost_Begin(p, CookDeleteRecipeBodies)
        \/ RecipePost_createRecipe(p)
        \/ Cook_Begin(p, {"1", "2", "3"})
        \/ Cook_getRecipe(p)
        \/ Cook_incrementCookCount(p)
        \/ RecipeDelete_Begin(p, {"1", "2"})
        \/ RecipeDelete_getRecipe(p)
        \/ RecipeDelete_deleteRecipe(p)

SpecCookDelete == InitCookDelete /\ [][NextCookDelete]_vars

\* C20: POST /recipes/:id/cook is answered 200, with the updated recipe,
\* only if the recipe exists when the increment is applied; applied to an
\* id with no recipe, also one deleted after the handler's existence check,
\* the increment changes nothing and the request is answered 404.
C20_CookMissingRecipe ==
    [][\A p \in Procs :
         (At(p, "POST cook", "incrementCookCount") /\ proc'[p] = Idle) =>
            LET found == getRecipe(ParseInt(proc[p].param)) IN
              /\ resp'.res.status = 200 =>
                    (found # {} /\ Len(resp'.res.rows) = 1)
              /\ found = {} =>
                    (resp'.res.status = 404 /\ recipes' = recipes)]_vars

\* ------------------------------------------------------- partial updates
\* ana, logged in, owns two recipes and two pets; she updates her profile,
\* recipe 1 and pet 1 while her account may be deleted under her requests.
\* The clock reads 1, later than every seeded timestamp.
InitUpdates ==
    /\ users = {SeedUser(1, "ana"), SeedUser(2, "bob")}
    /\ recipes = {SeedRecipe(1, 1), SeedRecipe(2, 1)}
    /\ favorites = {}
    /\ followers = {}
    /\ pets = {SeedPet(1, 1), SeedPet(2, 1)}
    /\ comments = {}
    /\ serial = [users |-> 3, recipes |-> 3, favorites |-> 1, followers |-> 1,
                 pets |-> 3, comments |-> 1]
    /\ session = [s \in Sessions |-> IF s = 1 THEN 1 ELSE 0]
    /\ now = 1
    /\ NoRequests

UpdatesProfileBodies == {[email |-> "a@x"], [username |-> "bob"], [password |-> "pw2"]}

UpdatesRecipeBodies ==
    {[title |-> <<"b">>], [prepTime |-> "2", petType |-> "cat"], [petType |-> "bird"]}

UpdatesPetBodies == {[name |-> "max"], [type |-> "fish"]}

NextUpdates ==
    \/ DeleteUser({1})
    \/ \E p \in Procs :
        \/ Profile_Begin(p, UpdatesProfileBodies)
        \/ Profile_updateUser(p)
        \/ RecipePut_Begin(p, {"1"}, UpdatesRecipeBodies)
        \/ RecipePut_getRecipe(p)
        \/ RecipePut_updateRecipe(p)
        \/ PetPut_Begin(p, {"1"}, UpdatesPetBodies)
        \/ PetPut_getPet(p)
        \/ PetPut_updatePet(p)

SpecUpdates == InitUpdates /\ [][NextUpdates]_vars

\* The rows of a table before (rows) and after (rows2) an update of the row
\* id with the properties of data: the other rows stay; with no row id the
\* table stays; the row id either stays (the statement was rejected) or
\* keeps every field data does not name, updatedAt excepted, which takes the
\* clock's reading.
UpdateFrame(rows, rows2, id, data) ==
    /\ \A r \in rows : r.id # id => r \in rows2
    /\ (\A r \in rows : r.id # id) => rows2 = rows
    /\ \A r \in rows :
         r.id = id =>
            \/ rows2 = rows
            \/ \E r2 \in rows2 :
                 /\ rows2 = (rows \ {r}) \cup {r2}
                 /\ r2.updatedAt = now
                 /\ \A k \in DOMAIN r \ (DOMAIN data \cup {"updatedAt"}) :
                      r2[k] = r[k]

\* C21: updateUser, updatePet and updateRecipe change, on the row with the
\* given id, the supplied fields and updatedAt only: each supplied field
\* takes the supplied value (the password its digest), every other field and
\* every other row keeps its value, the other tables are untouched, and with
\* no row of that id the store is unchanged and the result is undefined
\* (values the store can take; a value outside an enumeration is rejected
\* before any row is looked for).
C21_PartialUpdate ==
    [][\A p \in Procs :
         LET id == ParseInt(proc[p].param)
             data == proc[p].body
             done == proc'[p] = Idle IN
           /\ (At(p, "PUT profile", "handler") /\ done) =>
                /\ UpdateFrame(users, users', UserId(p), data)
                /\ UNCHANGED <<recipes, pets, favorites, followers, comments>>
                /\ getUser(UserId(p)) = {} => resp'.res = UserBody(200, {})
                /\ \A u2 \in users' \ users :
                     /\ "username" \in DOMAIN data => u2.username = data.username
                     /\ "email" \in DOMAIN data => u2.email = data.email
                     /\ "password" \in DOMAIN data =>
                          BcryptCompare(data.password, u2.password)
           /\ (At(p, "PUT recipe", "updateRecipe") /\ done) =>
                /\ UpdateFrame(recipes, recipes', id, data)
                /\ UNCHANGED <<users, pets, favorites, followers, comments>>
                /\ (getRecipe(id) = {} /\ RecipeSetAccepted(data)) =>
                     resp'.res = RowBody(200, <<>>)
                /\ \A r2 \in recipes' \ recipes :
                     /\ "title" \in DOMAIN data => r2.title = data.title
                     /\ "petType" \in DOMAIN data => r2.petType = data.petType
                     /\ "prepTime" \in DOMAIN data =>
                          r2.prepTime = ParseInt(data.prepTime)
           /\ (At(p, "PUT pet", "updatePet") /\ done) =>
                /\ UpdateFrame(pets, pets', id, data)
                /\ UNCHANGED <<users, recipes, favorites, followers, comments>>
                /\ (getPet(id) = {} /\ PetSetAccepted(data)) =>
                     resp'.res = RowBody(200, <<>>)
                /\ \A x2 \in pets' \ pets :
                     /\ "name" \in DOMAIN data => x2.name = data.name
                     /\ "type" \in DOMAIN data => x2.type = data.type]_vars

\* A recipe update has just changed recipe 1 and left recipe 2 as it was,
\* after a profile update and a pet update took effect.
C21_Witness ==
    /\ resp.req.op = "PUT recipe"
    /\ resp.res.status = 200
    /\ resp.res.rows # <<>>
    /\ \E r \in recipes : r.id = 1 /\ r.petType = "cat" /\ r.prepTime = 2
    /\ SeedRecipe(2, 1) \in recipes
    /\ \E u \in users : u.id = 1 /\ u.email = "a@x"
    /\ \E x \in pets : x.id = 1 /\ x.name = "max"

\* ------------------------------------------------- POST /api/auth/logout
\* (mutant) the response is sent, the session is kept
Logout_KeepsSession(p) ==
    /\ Free(p)
    /\ \E s \in Sessions :
         Respond(p, Request("POST logout", s, "", NoBody),
                 Message(200, "Logged out successfully"))
    /\ UNCHANGED <<users, recipes, favorites, followers, pets, comments, serial, session, now>>

\* req.session.destroy removes the session from the (memory) store, which
\* reports no error, and the callback answers.  The route is not guarded:
\* it answers the same on a session nobody is logged in on.
Logout(p) ==
    /\ Free(p)
    /\ \E s \in Sessions :
         /\ session' = [session EXCEPT ![s] = 0]
         /\ Respond(p, Request("POST logout", s, "", NoBody),
                    Message(200, "Logged out successfully"))
    /\ UNCHANGED <<users, recipes, favorites, followers, pets, comments, serial, now>>

\* ----------------------------------------------------------- sessions
\* ana is registered and nobody is logged in; people log in with a right and
\* a wrong password, register, log out, read /me and add pets.
InitSessions ==
    /\ users = {SeedUser(1, "ana")}
    /\ recipes = {}
    /\ favorites = {}
    /\ followers = {}
    /\ pets = {}
    /\ comments = {}
    /\ serial = [users |-> 2, recipes |-> 1, favorites |-> 1, followers |-> 1,
                 pets |-> 1, comments |-> 1]
    /\ session = [s \in Sessions |-> 0]
    /\ now = 0
    /\ NoRequests

SessionsLoginBodies ==
    {[username |-> "ana", password |-> "pw"], [username |-> "ana", password |-> "pw2"],
     [username |-> "bob", password |-> "pw"]}

SessionsRegisterBodies == {[username |-> "bob", email |-> "b@x", password |-> "pw"]}

SessionsPetBodies == {[name |-> "rex", type |-> "dog"]}

NextSessions ==
    \E p \in Procs :
        \/ Login_getUserByUsername(p, SessionsLoginBodies)
        \/ Login_compare(p)
        \/ Register_getUserByEmail(p, SessionsRegisterBodies)
        \/ Register_getUserByUsername(p)
        \/ Register_createUser(p)
        \/ Logout(p)
        \/ Me(p)
        \/ PetPost_Begin(p, SessionsPetBodies)
        \/ PetPost_createPet(p)

SpecSessions == InitSessions /\ [][NextSessions]_vars

\* The routes registered with the authenticate middleware.
GuardedOps ==
    {"GET me", "POST pet", "PUT pet", "DELETE pet", "POST recipe",
     "PUT recipe", "DELETE recipe", "POST cook", "POST comment",
     "DELETE comment", "POST favorite", "DELETE favorite", "POST follow",
     "DELETE follow", "PUT profile"}

\* C22: a guarded request that arrives on a session with no userId is
\* answered 401 at once, is not handed to its route and writes nothing; a
\* successful logout leaves the session without userId, and a session
\* without userId gets one only by a successful login or register on it.
C22_LoggedOutIs401 ==
    [][/\ \A s \in Sessions :
            session[s] = 0 =>
              /\ \A p \in Procs :
                    ~(Free(p) /\ proc'[p].op \in GuardedOps /\ proc'[p].sess = s)
              /\ (/\ resp'.req.op \in GuardedOps
                  /\ resp'.req.sess = s
                  /\ proc' = proc) =>
                    /\ resp'.res.status = 401
                    /\ UNCHANGED <<users, recipes, favorites, followers,
                                   pets, comments, serial>>
              /\ session'[s] # 0 =>
                    /\ resp'.req.op \in {"POST login", "POST register"}
                    /\ resp'.req.sess = s
                    /\ resp'.res.status \in {200, 201}
       /\ (resp'.req.op = "POST logout" /\ resp'.res.status = 200) =>
              session'[resp'.req.sess] = 0]_vars

\* A pet was added on the session, the session was logged out, and a guarded
\* request arriving on it afterwards has just been answered 401.
C22_Witness ==
    /\ pets # {}
    /\ resp.req.op \in GuardedOps
    /\ resp.res = Message(401, "Unauthorized")
    /\ session[resp.req.sess] = 0

\* C23: a session's userId changes to a user id only in the step that
\* answers 200 a login on that session whose plaintext is the one the
\* password of the row it read was digested from, or that answers 201 a
\* register on that session that created the user; a login that carries a
\* username and a password, with the username unknown or the password not
\* matching, is answered 401 and leaves the sessions and the store unchanged.
C23_SessionOnlyAfterVerification ==
    [][LET req == resp'.req
           read == IF req.pc = "compare" THEN req.user
                   ELSE getUserByUsername(Prop(req.body, "username"))
           matches(u) ==
               u.password.hashed /\ u.password.of = req.body.password IN
         /\ \A s \in Sessions :
              (session'[s] # session[s] /\ session'[s] # 0) =>
                 /\ req.sess = s
                 /\ \/ /\ req.op = "POST login"
                       /\ resp'.res.status = 200
                       /\ \E u \in read : u.id = session'[s] /\ matches(u)
                    \/ /\ req.op = "POST register"
                       /\ resp'.res.status = 201
                       /\ session'[s] \notin UserIds
                       /\ \E u \in users' : u.id = session'[s]
         /\ (/\ req.op = "POST login"
             /\ Truthy(Prop(req.body, "username"))
             /\ Truthy(Prop(req.body, "password"))
             /\ \A u \in read : ~matches(u)) =>
                 /\ resp'.res.status = 401
                 /\ UNCHANGED <<session, users, recipes, favorites, followers,
                                pets, comments, serial>>]_vars

\* ana is logged in on a session and a login with a wrong password on that
\* session has just been answered 401: the session is still hers.
C23_Witness ==
    /\ resp.req.op = "POST login"
    /\ resp.req.pc = "compare"
    /\ resp.res.status = 401
    /\ session[resp.req.sess] = 1

\* ------------------------------------------------- storage calls that throw
\* Any awaited storage call may reject (the connection to the database is
\* lost, the statement times out).  authenticate awaits getUser outside any
\* try block: its promise rejects and authenticate neither answers nor calls
\* next.  What becomes of the request is the router's doing: Express 4
\* ignores the promise a handler returns, and the request stays open with
\* no code left to answer it; Express 5 passes the rejection to the error
\* handler, which answers 500.
Authenticate_getUserThrows(p, req) ==
    /\ Free(p)
    /\ session[req.sess] # 0
    /\ \/ /\ proc' = [proc EXCEPT ![p] = [req EXCEPT !.pc = "unhandled"]]
          /\ resp' = NoResp
       \/ Respond(p, req, Message(500, "Internal Server Error"))

Cook_BeginThrows(p, params) ==
    /\ \E s \in Sessions, id \in params :
         Authenticate_getUserThrows(p, Request("POST cook", s, id, NoBody))
    /\ UNCHANGED <<users, recipes, favorites, followers, serial, session, now, pets, comments>>

\* getRecipe or incrementCookCount rejects inside the route's try block: the
\* catch answers 500.
Cook_StorageThrows(p) ==
    /\ proc[p].op = "POST cook"
    /\ proc[p].pc \in {"handler", "incrementCookCount"}
    /\ Respond(p, proc[p], Message(500, "Server error"))
    /\ UNCHANGED <<users, recipes, favorites, followers, serial, session, now, pets, comments>>

\* ana, logged in, owns recipe 1; cook requests arrive, she logs out and in,
\* and any storage call of a cook request may throw.
FailuresLoginBodies == {[username |-> "ana", password |-> "pw"]}

NextFailures ==
    \E p \in Procs :
        \/ Cook_Begin(p, {"1", "2"})
        \/ Cook_getRecipe(p)
        \/ Cook_incrementCookCount(p)
        \/ Cook_BeginThrows(p, {"1", "2"})
        \/ Cook_StorageThrows(p)
        \/ Login_getUserByUsername(p, FailuresLoginBodies)
        \/ Login_compare(p)
        \/ Logout(p)

SpecFailures == InitCookDelete /\ [][NextFailures]_vars

\* C24: no request is left without a response: a request whose storage call
\* threw is never in the state where its handling has ended and nothing was
\* sent.
C24_EveryFailureReported ==
    \A p \in Procs : proc[p].pc # "unhandled"

\* ------------------------------------------------ storage: getFavorites
\* favorites INNER JOIN recipes ON favorites.recipe_id = recipes.id WHERE
\* favorites.user_id = userId ORDER BY favorites.created_at DESC, mapped to
\* the recipe of each joined row: one element per favorites row.
getFavorites(userId) ==
    {[i \in DOMAIN q |-> CHOOSE r \in recipes : r.id = q[i].recipeId] :
        q \in NewestFirst({f \in favorites :
                              f.userId = userId /\ f.recipeId \in RecipeIds})}

\* ------------------------------------------ GET /api/users/:userId/favorites
FavoritesGet(p, params) ==
    /\ Free(p)
    /\ \E id \in params :
         LET req == Request("GET favorites", 0, id, NoBody) IN
           IF BadInt(ParseInt(id))
           THEN Respond(p, req, Message(500, "Server error"))
           ELSE \E result \in getFavorites(ParseInt(id)) :
                   Respond(p, req, RowBody(200, result))
    /\ UNCHANGED <<users, recipes, favorites, followers, pets, comments, serial, session, now>>

\* ------------------------------------------------------ listed favorites
\* ana, logged in, favorites the two recipes of bob as time passes, and her
\* favorites are listed.
InitFavoriteList ==
    /\ users = {SeedUser(1, "ana"), SeedUser(2, "bob")}
    /\ recipes = {SeedRecipe(1, 2), SeedRecipe(2, 2)}
    /\ favorites = {}
    /\ followers = {}
    /\ pets = {}
    /\ comments = {}
    /\ serial = [users |-> 3, recipes |-> 3, favorites |-> 1, followers |-> 1,
                 pets |-> 1, comments |-> 1]
    /\ session = [s \in Sessions |-> IF s <= 2 THEN s ELSE 0]
    /\ now = 0
    /\ NoRequests

NextFavoriteList ==
    \/ Tick
    \/ \E p \in Procs :
        \/ FavoritePost_Begin(p)
        \/ FavoritePost_getRecipe(p)
        \/ FavoritePost_isFavorite(p)
        \/ FavoritePost_addFavorite(p)
        \/ FavoritesGet(p, {"1", "abc"})

SpecFavoriteList == InitFavoriteList /\ [][NextFavoriteList]_vars

\* C25: the list GET /users/:userId/favorites answers with holds each recipe
\* the user has favorited exactly once and no other recipe, the recipe
\* favorited later before the one favorited earlier.
C25_FavoritesListedOnce ==
    (resp.req.op = "GET favorites" /\ resp.res.status = 200) =>
        LET u == ParseInt(resp.req.param)
            rows == resp.res.rows
            mine == {f \in favorites : f.userId = u} IN
          /\ {rows[i].id : i \in DOMAIN rows} = {f.recipeId : f \in mine}
          /\ \A i, j \in DOMAIN rows : i # j => rows[i].id # rows[j].id
          /\ \A i, j \in DOMAIN rows :
               i < j => \E f, g \in mine :
                          /\ f.recipeId = rows[i].id
                          /\ g.recipeId = rows[j].id
                          /\ f.createdAt >= g.createdAt

\* C26: in every reachable state every comment with a parentId has the
\* recipeId of its parent comment (a POST on one recipe with the parentId of
\* a comment of another recipe creates no row).
C26_ReplyOnParentsRecipe ==
    \A c, d \in comments : c.parentId = d.id => c.recipeId = d.recipeId

\* C27: the userId of a pet or a recipe never changes after creation: no
\* step leaves a row of either table with a userId other than the one the
\* row of that id had before the step.
C27_OwnerNeverChanges ==
    [][/\ \A r \in recipes, r2 \in recipes' : r.id = r2.id => r.userId = r2.userId
       /\ \A x \in pets, x2 \in pets' : x.id = x2.id => x.userId = x2.userId]_vars

\* --------------------------------------------------- who a new row is of
\* ana and bob are registered, ana is logged in and bob owns recipe 1; pets,
\* recipes, comments, favorites and follows are created with bodies that
\* name bob, or another recipe, as the row's owner or target.  The id
\* sequences stand at their last value: each table takes one more row.
InitCreators ==
    /\ users = {SeedUser(1, "ana"), SeedUser(2, "bob")}
    /\ recipes = {SeedRecipe(1, 2)}
    /\ favorites = {}
    /\ followers = {}
    /\ pets = {}
    /\ comments = {}
    /\ serial = [users |-> 3, recipes |-> MaxId, favorites |-> MaxId,
                 followers |-> MaxId, pets |-> MaxId, comments |-> MaxComments]
    /\ session = [s \in Sessions |-> IF s = 1 THEN 1 ELSE 0]
    /\ now = 0
    /\ NoRequests

CreatorsPetBodies == {[name |-> "rex", type |-> "dog", userId |-> "2"]}

CreatorsRecipeBodies ==
    {[title |-> <<"a">>, ingredients |-> <<"b">>, petType |-> "dog",
      category |-> "meat", prepTime |-> "1", userId |-> "2"]}

CreatorsCommentBodies == {[content |-> "x", userId |-> "2", recipeId |-> "2"]}

NextCreators ==
    \E p \in Procs :
        \/ PetPost_Begin(p, CreatorsPetBodies)
        \/ PetPost_createPet(p)
        \/ RecipePost_Begin(p, CreatorsRecipeBodies)
        \/ RecipePost_createRecipe(p)
        \/ CommentPost_Begin(p, {"1"}, CreatorsCommentBodies)
        \/ CommentPost_getRecipe(p)
        \/ CommentPost_createComment(p)
        \/ FavoritePost_Begin(p)
        \/ FavoritePost_getRecipe(p)
        \/ FavoritePost_isFavorite(p)
        \/ FavoritePost_addFavorite(p)
        \/ FollowPost_Begin(p, {"2"})
        \/ FollowPost_getUser(p)
        \/ FollowPost_isFollowing(p)
        \/ FollowPost_follow(p)

SpecCreators == InitCreators /\ [][NextCreators]_vars

\* C28: every row a POST adds to pets, recipes, comments or favorites has as
\* userId, and every row added to followers has as followerId, the user the
\* request was authenticated as, who is the user of the request's session,
\* whatever the body names; a new comment is on the recipe of the path.
C28_CreatedForSessionUser ==
    [][LET req == resp'.req IN
         /\ \A x \in pets' \ pets :
              req.op = "POST pet" /\ x.userId = req.userId
         /\ \A r \in recipes' \ recipes :
              req.op = "POST recipe" /\ r.userId = req.userId
         /\ \A c \in comments' \ comments :
              /\ req.op = "POST comment"
              /\ c.userId = req.userId
              /\ c.recipeId = ParseInt(req.param)
         /\ \A f \in favorites' \ favorites :
              req.op = "POST favorite" /\ f.userId = req.userId
         /\ \A f \in followers' \ followers :
              req.op = "POST follow" /\ f.followerId = req.userId
         /\ (\/ pets' # pets \/ recipes' # recipes \/ comments' # comments
             \/ favorites' # favorites \/ followers' # followers) =>
                req.userId = session[req.sess]]_vars

\* ana has a pet, a recipe, a comment, a favorite and a follow, each created
\* by a request whose body named bob where it could.
C28_Witness ==
    /\ \E x \in pets : x.userId = 1
    /\ \E r \in recipes : r.id # 1 /\ r.userId = 1
    /\ \E c \in comments : c.userId = 1 /\ c.recipeId = 1
    /\ \E f \in favorites : f.userId = 1
    /\ \E f \in followers : f.followerId = 1 /\ f.followingId = 2

\* C29: in every reachable state each comment and each favorite references
\* an existing recipe and an existing user, each comment's parentId, when
\* set, references an existing comment, and no comment is its own ancestor.
C29_ReferentialIntegrity ==
    /\ \A c \in comments :
         /\ c.recipeId \in RecipeIds
         /\ c.userId \in UserIds
         /\ c.parentId # Null => c.parentId \in CommentIds
    /\ \A f \in favorites : f.recipeId \in RecipeIds /\ f.userId \in UserIds
    /\ \A c, d \in comments : c.parentId = d.id => ~IsUnder(d, {c.id})

\* C30: a login that carries a username and a password is answered alike
\* on a store where no user has the username and on one where a user has it
\* with another password: in both the response is status 401 with the
\* message "Invalid credentials" and no user record, and the sessions are
\* left as they were.
C30_LoginDoesNotRevealUsername ==
    [][LET req == resp'.req
           read == IF req.pc = "compare" THEN req.user
                   ELSE getUserByUsername(Prop(req.body, "username"))
           unknown == read = {}
           mismatch == /\ read # {}
                       /\ \A u \in read :
                            ~(u.password.hashed /\ u.password.of = req.body.password) IN
         (/\ req.op = "POST login"
          /\ Truthy(Prop(req.body, "username"))
          /\ Truthy(Prop(req.body, "password"))
          /\ unknown \/ mismatch) =>
              /\ resp'.res = Message(401, "Invalid credentials")
              /\ session' = session]_vars

\* A login as bob, whom the store does not know, has just been answered 401
\* on a store that knows ana.
C30_Witness ==
    /\ resp.req.op = "POST login"
    /\ resp.req.pc = "handler"
    /\ resp.req.body.username = "bob"
    /\ resp.res.status = 401
    /\ getUserByUsername("bob") = {}
    /\ getUserByUsername("ana") # {}

====
